---- MODULE Spec2Model ----
(***************************************************************************)
(* RepoSense: the update worker pool (pkg/updater) and the description     *)
(* cache (pkg/cache), with the scanner, the status collector and the       *)
(* update command around them.  The state machines of this module:         *)
(*   SpecPool   one call of Updater.UpdateRepositories with its goroutines *)
(*              (the W workers, the task producer, the goroutine that      *)
(*              closes the result channel, the collecting loop) and Stop;  *)
(*   SpecCache  processes that share one SQLite store and call             *)
(*              Manager.GetDescription, SaveMetadata, RefreshRepository    *)
(*              and ClearCache;                                            *)
(*   SpecScan   Scanner.ScanDirectory walking one directory tree;          *)
(*   SpecFilter ScanDirectoryWithFilter over include and exclude patterns; *)
(*   SpecSave   Cache.SaveDescription against the clock of the store;      *)
(*   SpecClear  Cache.ClearCache as one transaction;                       *)
(*   SpecList   CachedScanner.ScanDirectoryWithDescription;                *)
(*   SpecStatus StatusCollector.CollectStatus and its git commands;        *)
(*   SpecRun    runUpdate from the worker count flag to the started pool;  *)
(*   SpecReadme the README content a description is cached under;          *)
(*   SpecPull   updateRepository classifying the outcome of git pull;      *)
(*   SpecCollect the result channel, the collecting loop and the callback; *)
(*   SpecPoolFair  SpecPool with every goroutine scheduled fairly;         *)
(*   SpecPoolAgain SpecPool with later calls on the same Updater.          *)
(***************************************************************************)
EXTENDS Integers, Sequences, FiniteSets, TLC

\* ------------------------------------------------------------------ bounds
MaxRepos == 2
MaxWorkers == 2
\* u.config.Timeout, in clock ticks
Timeout == 1
\* GetDescription calls and maintenance operations (SaveMetadata,
\* RefreshRepository, ClearCache) in one behaviour
MaxCalls == 2
MaxAdmin == 1
\* entries of the scanned directory tree, the root included
MaxNodes == 4
\* patterns in one include or exclude list
MaxPatterns == 2
\* seconds the clock of the store advances in one behaviour
MaxClock == 2
\* commits a branch is ahead of or behind its remote branch
MaxDiff == 1
\* how far a configured worker count lies below 0 or above the largest one
MaxExcess == 2
\* bytes of a README file
MaxReadme == 2
\* pieces (a phrase git prints, or other text) the output of a pull is made of
MaxPieces == 2

\* ------------------------------------------------------------------ state
VARIABLES
    \* ---- Updater.UpdateRepositories
    repositories,   \* the input list ([]scanner.Repository)
    WorkerCount,    \* u.config.WorkerCount
    DryRun,         \* u.config.DryRun
    hasCallback,    \* progressCallback != nil
    stoppedBefore,  \* Stop had been called on the Updater when this call was made
    cancelled,      \* u.ctx is done (Stop was called)
    mainPc,         \* the calling goroutine: "entry", "spawn", "collect", "returned"
    spawned,        \* loop counter i of the worker start loop
    producerPc,     \* the task producer goroutine: "off", "run", "done"
    nextJob,        \* index of the next repository the producer sends
    closerPc,       \* the goroutine wg.Wait(); close(results): "off", "wait", "done"
    jobs,           \* buffer of the jobs channel
    jobsClosed,
    results,        \* buffer of the results channel
    resultsClosed,
    wk,             \* the worker goroutines
    updateResults,  \* the list the call returns
    callbacks,      \* the results the progress callback was invoked with, in order
    retErr,         \* the error the call returns
    \* ---- history of the run
    taken,          \* repository -> times it was received from jobs
    pulls,          \* repository -> git subprocesses spawned for it
    started,        \* repositories updateRepository was called for
    completed,      \* results updateRepository returned
    pendingAtStop,  \* repositories not yet dispatched when Stop was called
    late,           \* workers whose subprocess ran on through a tick after Stop
    panicked,       \* a worker sent on the closed results channel
    \* ---- the cache store (one SQLite file) and its callers
    foreignKeys,    \* the connection enforces foreign keys (_foreign_keys=on honoured)
    rows,           \* table repositories
    nextId,         \* AUTOINCREMENT of repositories.id
    meta,           \* table repository_metadata
    stats,          \* the cache_stats row
    proc,           \* the GetDescription call each process is in
    calls,          \* GetDescription calls begun
    admin,          \* maintenance operations done
    \* ---- history of the store
    llmCalls,       \* the (path, hash) pairs a cached lookup has successfully called the
                    \*   LLM for since the path was last cleared or refreshed
    lastWrite       \* path -> the description write the path's row comes from

poolVars == <<repositories, WorkerCount, DryRun, hasCallback, stoppedBefore,
              cancelled, mainPc, spawned, producerPc, nextJob, closerPc, jobs, jobsClosed, results,
              resultsClosed, wk, updateResults, callbacks, retErr, taken, pulls,
              started, completed, pendingAtStop, late, panicked>>

cacheVars == <<foreignKeys, rows, nextId, meta, stats, proc, calls, admin,
               llmCalls, lastWrite>>

VARIABLES
    \* ---- Scanner.ScanDirectory under runUpdate
    fs,             \* the directory tree: entry -> its parent, kind and access
    scanPc,         \* "off", "call", "walk", "walked", "returned", then how runUpdate
                    \*   goes on: "exit1", "norepos", "update"
    walkStack,      \* the directories filepath.Walk is inside, innermost last
    walkErr,        \* what filepath.Walk returns
    scanRepos,      \* the local list ScanDirectory appends to
    scanRet,        \* what ScanDirectory returned
    visited         \* entries the walk callback was called for

scanVars == <<fs, scanPc, walkStack, walkErr, scanRepos, scanRet, visited>>

VARIABLES
    \* ---- Scanner.ScanDirectoryWithFilter
    includePatterns,
    excludePatterns,
    scanned,        \* the list ScanDirectory returned
    filterIdx,      \* position of the loop over the scanned list
    filtered,       \* the list the loop appends to
    filterPc,       \* "off", "call", "loop", "done"
    filterRet       \* the list ScanDirectoryWithFilter returned

filterVars == <<includePatterns, excludePatterns, scanned, filterIdx, filtered,
                filterPc, filterRet>>

VARIABLES
    \* ---- direct calls of Cache.SaveDescription
    clock,          \* CURRENT_TIMESTAMP of the store, in seconds
    saves           \* the SaveDescription calls made, in order

saveVars == <<clock, saves>>

VARIABLES
    \* ---- the transaction of Cache.ClearCache
    side,           \* the tables repository_tags, _languages, _frameworks, _licenses and
                    \*   _dependencies: table -> ids of the repositories with rows in it
    tx,             \* the transaction: its position and its uncommitted view of the store
    before          \* the store when ClearCache was called

clearVars == <<side, tx, before>>

VARIABLES
    \* ---- CachedScanner.ScanDirectoryWithDescription
    listCfg,        \* cs.cacheManager and the Manager's fields
    listRepos,      \* the paths ScanDirectoryWithFilter returned
    listReadme,     \* path -> what readREADMEContent returns for it
    listIdx,        \* position of the loop over listRepos
    listPc,         \* "off", "loop", "call", "done"
    reposWithDesc   \* the list the loop appends to

listVars == <<listCfg, listRepos, listReadme, listIdx, listPc, reposWithDesc>>

VARIABLES
    \* ---- StatusCollector.CollectStatus
    stRepo,         \* the repository: IsGitRepo and what its git commands would answer
    stPc,           \* position in CollectStatus and its helpers
    status,         \* the RepositoryStatus being filled
    stDiff,         \* the locals ahead and behind of getRemoteDiff
    stCtxDone,      \* the timeout of ctx has passed
    stFailed        \* the git commands that failed

statusVars == <<stRepo, stPc, status, stDiff, stCtxDone, stFailed>>

VARIABLES
    \* ---- runUpdate: from the --workers flag to the worker pool
    flagWorkers,    \* the worker count as configured (flag or file), before Validate
    cfgWorkers,     \* cfg.WorkerCount
    runPc,          \* "off", "start", "scan", "config", "pool", "running", "returned"
    runFound,       \* len(repositories) after the scan
    updWorkers,     \* updaterConfig.WorkerCount, 0 before NewUpdater
    runStarted      \* workers started by the loop of UpdateRepositories

runVars == <<flagWorkers, cfgWorkers, runPc, runFound, updWorkers, runStarted>>


VARIABLES
    \* ---- a README file read and hashed twice (CachedScanner, Cache)
    rdWritten,      \* the bytes of the README when its description was saved
    rdAsked,        \* the bytes of the README at the later lookup
    rdPc,           \* "off", "start", "saved", "done"
    rdHash,         \* readme_hash of the row of the path, "NULL" without row
    rdFound         \* the lookup found the row

readmeVars == <<rdWritten, rdAsked, rdPc, rdHash, rdFound>>


VARIABLES
    \* ---- updateRepository after git pull has ended
    pullOutput,     \* output of cmd.CombinedOutput(), a sequence of characters
    pullErr,        \* err of cmd.CombinedOutput(), "nil" for exit status 0
    pullPc,         \* "off", "run", "done"
    pullResult      \* result.Success, result.Error, result.Message

pullVars == <<pullOutput, pullErr, pullPc, pullResult>>


VARIABLES
    \* ---- the collecting loop of UpdateRepositories, the callback as a call that takes time
    clWorkers,      \* worker -> "run" (its last result not yet sent), "exited"
    clResults,      \* the buffer of the results channel (results are named by their worker)
    clClosed,       \* close(results) has run
    clMain,         \* the calling goroutine: "off", "range", "append", "call", "returned"
    clCur,          \* the result the loop body works on, 0 for none
    clList,         \* updateResults
    clCalls,        \* the invocations of the callback that are running, by result
    clHasCallback   \* progressCallback != nil

collectVars == <<clWorkers, clResults, clClosed, clMain, clCur, clList, clCalls,
                 clHasCallback>>

restVars == <<scanVars, filterVars, saveVars, clearVars, listVars, statusVars, runVars,
             readmeVars, pullVars, collectVars>>

vars == <<poolVars, cacheVars, restVars>>

\* ------------------------------------------------------------------ helpers
\* scanner.Repository values: the scanner reports a path at most once
RepoNames == <<"r1", "r2", "r3", "r4">>

Workers == 1..(MaxWorkers)

Range(s) == {s[i] : i \in 1..Len(s)}

Min(a, b) == IF a < b THEN a ELSE b


\* make(chan ..., len(repositories))
ChanCap == Len(repositories)

\* UpdateResult
Result(repo, success, message, err, endedBy) ==
    [Repository |-> repo, Success |-> success, Message |-> message,
     Error |-> err, EndedBy |-> endedBy]

NoResult == Result("", FALSE, "", "", "none")

\* the message of a dry-run result: "DRY RUN: " followed by the six Chinese characters
\* for "simulated update succeeded", written here as their code points
DryRunMessage == "DRY RUN: U+6A21 U+62DF U+66F4 U+65B0 U+6210 U+529F"

\* if u.config.DryRun, if the flag were not looked at
DryRunIgnored(dry) == FALSE

\* if u.config.DryRun
IsDryRun(dry) == dry

IdleWorker == [pc |-> "off", repo |-> "", elapsed |-> 0, res |-> NoResult]

\* receiving from a channel removes the head of its buffer
DequeueKeep(q) == q
Dequeue(q) == Tail(q)

\* the ctx a git subprocess runs under: context.WithTimeout(u.ctx, u.config.Timeout)
DeadlinePassed(w) == wk[w].elapsed >= Timeout
CtxDoneNoTimeout(w) == cancelled
CtxDone(w) == cancelled \/ DeadlinePassed(w)

\* worker: select { case <-u.ctx.Done(): return; default: ... }
WorkerSeesNoCancel == FALSE
WorkerSeesCancel == cancelled

\* the worker start loop condition: i < u.config.WorkerCount
MoreWorkersOffByOne == spawned <= WorkerCount
MoreWorkers == spawned < WorkerCount

\* wg.Wait() returns: every started worker ran its deferred wg.Done()
WaitReturnsEarly == TRUE
WaitReturnsNever == FALSE
WaitReturnsAfterFirst == spawned = 0 \/ \E w \in 1..spawned : wk[w].pc = "exited"
WaitReturns == \A w \in 1..spawned : wk[w].pc = "exited"

\* the collecting loop hands each received result to the callback once
InvokeTwice(cb, r) == Append(Append(cb, r), r)
Invoke(cb, r) == IF hasCallback THEN Append(cb, r) ELSE cb

\* repositories that no worker has yet taken past its cancellation check
Dispatched == {wk[w].repo : w \in {v \in Workers : wk[v].pc \in {"update", "git", "send"}}}
Pending == (Range(repositories) \ started) \ Dispatched

\* ------------------------------------------------------------------ cache: values
Paths == {"/r1", "/r2"}
\* README contents; "" is a repository without README
Readmes == {"A", "B"}
\* the processes that share the store, each with its own Manager
Procs == {1, 2}
\* (provider, model, language): each process runs with its own LLM settings
ParamsOf(i) == IF i = 1 THEN "openai/zh" ELSE "gemini/en"
StructureHashes == {"s1"}

\* hashContent: SHA-256 as hex, free of collisions on the contents used
hashContent(content) ==
    CASE content = "A" -> "sha256:a"
      [] content = "B" -> "sha256:b"
      [] OTHER -> "sha256:empty"

\* the descriptions the LLM may give for a README: the text follows the content
\* and the language the caller asks for
NoDesc == [src |-> "", lang |-> ""]
DescsOf(content, params) == {[src |-> content, lang |-> params]}

NoRow == [id |-> 0, path |-> "", hash |-> "NULL", desc |-> NoDesc, params |-> "NULL",
          created_at |-> 0, updated_at |-> 0]
NoWrite == [hash |-> "NULL", desc |-> NoDesc, replaced |-> "none", stale |-> FALSE]

IdleProc == [pc |-> "idle", path |-> "", readme |-> "", params |-> "", enableCache |-> FALSE,
             forceRefresh |-> FALSE, hasLLM |-> FALSE, ret |-> NoDesc, err |-> FALSE,
             desc |-> NoDesc, hit |-> FALSE, called |-> FALSE, stale |-> FALSE,
             overlapped |-> FALSE]

\* the state of the cache before any process touched it
CacheIdle ==
    /\ rows = {}
    /\ nextId = 1
    /\ meta = {}
    /\ stats = [cache_hits |-> 0, cache_misses |-> 0, llm_api_calls |-> 0]
    /\ proc = [i \in Procs |-> IdleProc]
    /\ calls = 0
    /\ admin = 0
    /\ llmCalls = {}
    /\ lastWrite = [q \in Paths |-> NoWrite]

\* ---- the directory tree
Nodes == 1..MaxNodes
Root == 1
\* an entry Lstat fails on
NoEntry == [parent |-> 0, kind |-> "gone", git |-> FALSE, readable |-> FALSE]
NoScanRet == [repos |-> <<>>, err |-> "unset"]

\* no scan is running
ScanIdle ==
    /\ fs = [n \in Nodes |-> NoEntry]
    /\ scanPc = "off"
    /\ walkStack = <<>>
    /\ walkErr = "unset"
    /\ scanRepos = <<>>
    /\ scanRet = NoScanRet
    /\ visited = {}

\* no filtered scan is running
FilterIdle ==
    /\ includePatterns = <<>>
    /\ excludePatterns = <<>>
    /\ scanned = <<>>
    /\ filterIdx = 1
    /\ filtered = <<>>
    /\ filterPc = "off"
    /\ filterRet = <<>>

\* the clock stands and SaveDescription was not called directly
SaveIdle ==
    /\ clock = 0
    /\ saves = <<>>

\* the tables of the schema besides repositories, repository_metadata and cache_stats
SideTables == {"repository_tags", "repository_languages", "repository_frameworks",
               "repository_licenses", "repository_dependencies"}
NoTx == [pc |-> "none", step |-> 0, view |-> <<>>]

\* no ClearCache transaction was begun and the side tables are empty
ClearIdle ==
    /\ side = [t \in SideTables |-> {}]
    /\ tx = NoTx
    /\ before = <<>>

NoListCfg == [hasManager |-> FALSE, enableCache |-> FALSE, forceRefresh |-> FALSE,
              hasLLM |-> FALSE]

\* no list operation is running
ListIdle ==
    /\ listCfg = NoListCfg
    /\ listRepos = <<>>
    /\ listReadme = <<>>
    /\ listIdx = 1
    /\ listPc = "off"
    /\ reposWithDesc = <<>>

NoStRepo == [IsGitRepo |-> FALSE, branch |-> "", dirty |-> FALSE, origin |-> FALSE,
             tracked |-> FALSE, ahead |-> 0, behind |-> 0]

\* RepositoryStatus{Repository: repo}
ZeroStatus == [Branch |-> "", LastCommitHash |-> "", LastCommitMsg |-> "",
               LastCommitDate |-> 0, HasChanges |-> FALSE, Status |-> "",
               RemoteURL |-> "", Ahead |-> 0, Behind |-> 0, Error |-> ""]

\* no status is being collected
StatusIdle ==
    /\ stRepo = NoStRepo
    /\ stPc = "off"
    /\ status = ZeroStatus
    /\ stDiff = [ahead |-> 0, behind |-> 0]
    /\ stCtxDone = FALSE
    /\ stFailed = {}

\* runUpdate has not been called
RunIdle ==
    /\ flagWorkers = 0
    /\ cfgWorkers = 0
    /\ runPc = "off"
    /\ runFound = 0
    /\ updWorkers = 0
    /\ runStarted = 0

\* the components but c are not in use

\* no README has been read
ReadmeIdle ==
    /\ rdWritten = <<>>
    /\ rdAsked = <<>>
    /\ rdPc = "off"
    /\ rdHash = "NULL"
    /\ rdFound = FALSE


\* no pull has been classified
PullIdle ==
    /\ pullOutput = <<>>
    /\ pullErr = "nil"
    /\ pullPc = "off"
    /\ pullResult = [Success |-> FALSE, Error |-> "", Message |-> <<>>]


\* no collecting loop is running
CollectIdle ==
    /\ clWorkers = <<>>
    /\ clResults = <<>>
    /\ clClosed = FALSE
    /\ clMain = "off"
    /\ clCur = 0
    /\ clList = <<>>
    /\ clCalls = {}
    /\ clHasCallback = FALSE

OthersIdle(c) ==
    /\ c = "scan" \/ ScanIdle
    /\ c = "filter" \/ FilterIdle
    /\ c = "save" \/ SaveIdle
    /\ c = "clear" \/ ClearIdle
    /\ c = "list" \/ ListIdle
    /\ c = "status" \/ StatusIdle
    /\ c = "run" \/ RunIdle
    /\ c = "readme" \/ ReadmeIdle
    /\ c = "pull" \/ PullIdle
    /\ c = "collect" \/ CollectIdle

\* what lies outside the pool and the cache is not in use
RestIdle == OthersIdle("none")

\* ------------------------------------------------------------------ Init
InitPool ==
    /\ \E n \in 0..MaxRepos : repositories = SubSeq(RepoNames, 1, n)
    /\ WorkerCount \in 0..MaxWorkers
    /\ DryRun \in BOOLEAN
    /\ hasCallback \in BOOLEAN
    /\ stoppedBefore = FALSE
    /\ cancelled = FALSE
    /\ mainPc = "entry"
    /\ spawned = 0
    /\ producerPc = "off"
    /\ nextJob = 1
    /\ closerPc = "off"
    /\ jobs = <<>>
    /\ jobsClosed = FALSE
    /\ results = <<>>
    /\ resultsClosed = FALSE
    /\ wk = [w \in Workers |-> IdleWorker]
    /\ updateResults = <<>>
    /\ callbacks = <<>>
    /\ retErr = "unset"
    /\ taken = [r \in Range(RepoNames) |-> 0]
    /\ pulls = [r \in Range(RepoNames) |-> 0]
    /\ started = {}
    /\ completed = {}
    /\ pendingAtStop = {}
    /\ late = {}
    /\ panicked = FALSE
    /\ foreignKeys = TRUE
    /\ CacheIdle
    /\ RestIdle

\* ------------------------------------------------------------------ UpdateRepositories
chanVars == <<jobs, jobsClosed, results, resultsClosed>>
cfgVars == <<repositories, WorkerCount, DryRun, hasCallback, stoppedBefore>>
histVars == <<taken, pulls, started, completed, pendingAtStop, late, panicked, cacheVars, restVars>>

\* if len(repositories) == 0 { return []UpdateResult{}, nil }
Entry ==
    /\ mainPc = "entry"
    /\ IF Len(repositories) = 0
         THEN /\ mainPc' = "returned"
              /\ retErr' = "nil"
         ELSE /\ mainPc' = "spawn"
              /\ UNCHANGED retErr
    /\ UNCHANGED <<cfgVars, cancelled, spawned, producerPc, nextJob, closerPc, chanVars,
                   wk, updateResults, callbacks, histVars>>

\* for i := 0; i < u.config.WorkerCount; i++ { wg.Add(1); go u.worker(...) }
SpawnWorker ==
    /\ mainPc = "spawn"
    /\ MoreWorkers
    /\ spawned' = spawned + 1
    /\ wk' = [wk EXCEPT ![spawned + 1].pc = "recv"]
    /\ UNCHANGED <<cfgVars, cancelled, mainPc, producerPc, nextJob, closerPc, chanVars,
                   updateResults, callbacks, retErr, histVars>>

\* go func() { ...send tasks... }(); go func() { wg.Wait(); close(results) }()
StartProducer ==
    /\ mainPc = "spawn"
    /\ ~MoreWorkers
    /\ producerPc' = "run"
    /\ closerPc' = "wait"
    /\ mainPc' = "collect"
    /\ UNCHANGED <<cfgVars, cancelled, spawned, nextJob, chanVars, wk, updateResults,
                   callbacks, retErr, histVars>>

\* select { case jobs <- repo: ...}
ProducerSend ==
    /\ producerPc = "run"
    /\ nextJob <= Len(repositories)
    /\ Len(jobs) < ChanCap
    /\ jobs' = Append(jobs, repositories[nextJob])
    /\ nextJob' = nextJob + 1
    /\ UNCHANGED <<cfgVars, cancelled, mainPc, spawned, producerPc, closerPc, jobsClosed,
                   results, resultsClosed, wk, updateResults, callbacks, retErr, histVars>>

\* select { ... case <-u.ctx.Done(): return }  with the deferred close(jobs)
ProducerCancel ==
    /\ producerPc = "run"
    /\ nextJob <= Len(repositories)
    /\ cancelled
    /\ producerPc' = "done"
    /\ jobsClosed' = TRUE
    /\ UNCHANGED <<cfgVars, cancelled, mainPc, spawned, nextJob, closerPc, jobs,
                   results, resultsClosed, wk, updateResults, callbacks, retErr, histVars>>

\* the loop over repositories ends; deferred close(jobs)
ProducerFinish ==
    /\ producerPc = "run"
    /\ nextJob > Len(repositories)
    /\ producerPc' = "done"
    /\ jobsClosed' = TRUE
    /\ UNCHANGED <<cfgVars, cancelled, mainPc, spawned, nextJob, closerPc, jobs,
                   results, resultsClosed, wk, updateResults, callbacks, retErr, histVars>>

\* wg.Wait(); close(results)
CloseResults ==
    /\ closerPc = "wait"
    /\ WaitReturns
    /\ closerPc' = "done"
    /\ resultsClosed' = TRUE
    /\ UNCHANGED <<cfgVars, cancelled, mainPc, spawned, producerPc, nextJob, jobs,
                   jobsClosed, results, wk, updateResults, callbacks, retErr, histVars>>

\* for result := range results { append; progressCallback(result) }
Collect ==
    /\ mainPc = "collect"
    /\ results # <<>>
    /\ updateResults' = Append(updateResults, Head(results))
    /\ callbacks' = Invoke(callbacks, Head(results))
    /\ results' = Tail(results)
    /\ UNCHANGED <<cfgVars, cancelled, mainPc, spawned, producerPc, nextJob, closerPc,
                   jobs, jobsClosed, resultsClosed, wk, retErr, histVars>>

\* range results ends on the closed, drained channel; return updateResults, nil
Return ==
    /\ mainPc = "collect"
    /\ results = <<>>
    /\ resultsClosed
    /\ mainPc' = "returned"
    /\ retErr' = "nil"
    /\ UNCHANGED <<cfgVars, cancelled, spawned, producerPc, nextJob, closerPc, chanVars,
                   wk, updateResults, callbacks, histVars>>

\* ------------------------------------------------------------------ worker
\* for repo := range jobs: a repository is received
Receive(w) ==
    /\ wk[w].pc = "recv"
    /\ jobs # <<>>
    /\ wk' = [wk EXCEPT ![w].pc = "select", ![w].repo = Head(jobs)]
    /\ jobs' = Dequeue(jobs)
    /\ taken' = [taken EXCEPT ![Head(jobs)] = @ + 1]
    /\ UNCHANGED <<cfgVars, cancelled, mainPc, spawned, producerPc, nextJob, closerPc,
                   jobsClosed, results, resultsClosed, updateResults, callbacks, retErr,
                   pulls, started, completed, pendingAtStop, late, panicked, cacheVars, restVars>>

\* range jobs ends on the closed, drained channel; deferred wg.Done()
WorkerExit(w) ==
    /\ wk[w].pc = "recv"
    /\ jobs = <<>>
    /\ jobsClosed
    /\ wk' = [wk EXCEPT ![w].pc = "exited"]
    /\ UNCHANGED <<cfgVars, cancelled, mainPc, spawned, producerPc, nextJob, closerPc,
                   chanVars, updateResults, callbacks, retErr, histVars>>

\* select { case <-u.ctx.Done(): return; default: ... }
Select(w) ==
    /\ wk[w].pc = "select"
    /\ IF WorkerSeesCancel
         THEN wk' = [wk EXCEPT ![w].pc = "exited", ![w].repo = ""]
         ELSE wk' = [wk EXCEPT ![w].pc = "update"]
    /\ UNCHANGED <<cfgVars, cancelled, mainPc, spawned, producerPc, nextJob, closerPc,
                   chanVars, updateResults, callbacks, retErr, histVars>>

\* updateRepository up to cmd.CombinedOutput() starting git: in dry-run mode the
\* result is made at once; otherwise exec starts git unless its context is
\* already done, in which case Start fails with the context's error
UpdateRepository(w) ==
    /\ wk[w].pc = "update"
    /\ started' = started \cup {wk[w].repo}
    /\ IF IsDryRun(DryRun)
         THEN /\ wk' = [wk EXCEPT ![w].pc = "send",
                                  ![w].res = Result(wk[w].repo, TRUE, DryRunMessage, "", "none")]
              /\ completed' = completed \cup {wk[w].repo}
              /\ UNCHANGED pulls
         ELSE IF cancelled
         THEN /\ wk' = [wk EXCEPT ![w].pc = "send",
                                  ![w].res = Result(wk[w].repo, FALSE, "failed",
                                                   "context canceled", "cancel")]
              /\ completed' = completed \cup {wk[w].repo}
              /\ UNCHANGED pulls
         ELSE /\ wk' = [wk EXCEPT ![w].pc = "git", ![w].elapsed = 0]
              /\ pulls' = [pulls EXCEPT ![wk[w].repo] = @ + 1]
              /\ UNCHANGED completed
    /\ UNCHANGED <<cfgVars, cancelled, mainPc, spawned, producerPc, nextJob, closerPc,
                   chanVars, updateResults, callbacks, retErr, taken, pendingAtStop,
                   late, panicked, cacheVars, restVars>>

\* git exits on its own: err == nil (exit 0) or an exit error
GitExit(w) ==
    /\ wk[w].pc = "git"
    /\ \E ok \in BOOLEAN :
         wk' = [wk EXCEPT ![w].pc = "send",
                          ![w].res = IF ok
                                       THEN Result(wk[w].repo, TRUE, "pulled", "", "exit")
                                       ELSE Result(wk[w].repo, FALSE, "failed",
                                                   "exit status 1", "exit")]
    /\ completed' = completed \cup {wk[w].repo}
    /\ UNCHANGED <<cfgVars, cancelled, mainPc, spawned, producerPc, nextJob, closerPc,
                   chanVars, updateResults, callbacks, retErr, taken, pulls, started,
                   pendingAtStop, late, panicked, cacheVars, restVars>>

\* the context of the subprocess is done: exec kills git, CombinedOutput returns an error
GitKilled(w) ==
    /\ wk[w].pc = "git"
    /\ CtxDone(w)
    /\ wk' = [wk EXCEPT ![w].pc = "send",
                        ![w].res = Result(wk[w].repo, FALSE, "failed", "signal: killed",
                                          IF cancelled THEN "cancel" ELSE "deadline")]
    /\ completed' = completed \cup {wk[w].repo}
    /\ UNCHANGED <<cfgVars, cancelled, mainPc, spawned, producerPc, nextJob, closerPc,
                   chanVars, updateResults, callbacks, retErr, taken, pulls, started,
                   pendingAtStop, late, panicked, cacheVars, restVars>>

\* results <- result (a send on a closed channel panics)
Send(w) ==
    /\ wk[w].pc = "send"
    /\ IF resultsClosed
         THEN /\ panicked' = TRUE
              /\ wk' = [wk EXCEPT ![w].pc = "exited"]
              /\ UNCHANGED results
         ELSE /\ Len(results) < ChanCap
              /\ results' = Append(results, wk[w].res)
              /\ wk' = [wk EXCEPT ![w].pc = "recv", ![w].repo = "", ![w].elapsed = 0,
                                  ![w].res = NoResult]
              /\ UNCHANGED panicked
    /\ UNCHANGED <<cfgVars, cancelled, mainPc, spawned, producerPc, nextJob, closerPc,
                   jobs, jobsClosed, resultsClosed, updateResults, callbacks, retErr,
                   taken, pulls, started, completed, pendingAtStop, late, cacheVars, restVars>>

\* ------------------------------------------------------------------ Stop and time
\* func (u *Updater) Stop() { u.cancel() }
Stop ==
    /\ ~cancelled
    /\ cancelled' = TRUE
    /\ pendingAtStop' = Pending
    /\ UNCHANGED <<cfgVars, mainPc, spawned, producerPc, nextJob, closerPc, chanVars, wk,
                   updateResults, callbacks, retErr, taken, pulls, started, completed,
                   late, panicked, cacheVars, restVars>>

Running == {w \in Workers : wk[w].pc = "git"}

\* one clock tick passes for the running subprocesses; a subprocess whose context
\* is done is killed before the clock moves on
Tick ==
    /\ Running # {}
    /\ \A w \in Running : ~CtxDone(w)
    /\ wk' = [w \in Workers |->
                IF w \in Running
                  THEN [wk[w] EXCEPT !.elapsed = Min(@ + 1, Timeout + 1)]
                  ELSE wk[w]]
    /\ late' = late \cup {w \in Running : cancelled}
    /\ UNCHANGED <<cfgVars, cancelled, mainPc, spawned, producerPc, nextJob, closerPc,
                   chanVars, updateResults, callbacks, retErr, taken, pulls, started,
                   completed, pendingAtStop, panicked, cacheVars, restVars>>

NextPool ==
    \/ Entry
    \/ SpawnWorker
    \/ StartProducer
    \/ ProducerSend
    \/ ProducerCancel
    \/ ProducerFinish
    \/ CloseResults
    \/ Collect
    \/ Return
    \/ \E w \in Workers : Receive(w)
    \/ \E w \in Workers : WorkerExit(w)
    \/ \E w \in Workers : Select(w)
    \/ \E w \in Workers : UpdateRepository(w)
    \/ \E w \in Workers : GitExit(w)
    \/ \E w \in Workers : GitKilled(w)
    \/ \E w \in Workers : Send(w)
    \/ Stop
    \/ Tick

SpecPool == InitPool /\ [][NextPool]_vars

\* ------------------------------------------------------------------ properties of the pool
\* every result that exists: returned, in the results channel, or held by a worker
ReturnedRepos == {updateResults[i].Repository : i \in 1..Len(updateResults)}
AllResults == Range(updateResults) \cup Range(results)
                \cup {wk[w].res : w \in {v \in Workers : wk[v].pc = "send"}}
ResultsFor(r) == {i \in 1..Len(updateResults) : updateResults[i].Repository = r}
Finished == mainPc = "returned"

\* C1: a run in which Stop was never called and that has at least one worker
\* returns exactly as many results as there were input repositories.
C1_ResultCount ==
    (Finished /\ ~cancelled /\ WorkerCount >= 1)
        => Len(updateResults) = Len(repositories)

\* C1 witness: a finished, non-cancelled run with more workers than repositories
C1_Witness ==
    /\ Finished /\ ~cancelled
    /\ Len(repositories) >= 1
    /\ WorkerCount > Len(repositories)
    /\ Len(updateResults) = Len(repositories)

\* C2: every input repository is received from the task queue at most once and
\* pulled at most once; the returned results name pairwise distinct input
\* entries, each the entry it was produced for; a failed task is not run again
\* and, in a run that is not cancelled, every other task still gets its result.
C2_AtMostOnce ==
    /\ \A r \in Range(RepoNames) : taken[r] <= 1 /\ pulls[r] <= 1
    /\ \A i, j \in 1..Len(updateResults) :
          i # j => updateResults[i].Repository # updateResults[j].Repository
    /\ ReturnedRepos \subseteq Range(repositories)
    /\ ReturnedRepos \subseteq started
    /\ \A w \in Workers : wk[w].pc = "send" => wk[w].res.Repository = wk[w].repo
    /\ (Finished /\ ~cancelled /\ WorkerCount >= 1)
          => \A r \in Range(repositories) : Cardinality(ResultsFor(r)) = 1

\* C2 witness: a finished run of two workers where the task that finished first
\* failed and the other one still delivered its result
C2_Witness ==
    /\ Finished /\ ~cancelled /\ WorkerCount = 2
    /\ Len(updateResults) = 2
    /\ ~updateResults[1].Success
    /\ updateResults[2].Success
    /\ updateResults[1].Repository = "r2"

\* C7: after Stop no task that was pending at that moment is started, no
\* subprocess runs on past the cancellation, and the call returns nil together
\* with the results of exactly the tasks that completed.
C7_Cancel ==
    /\ pendingAtStop \cap started = {}
    /\ late = {}
    /\ Finished => retErr = "nil"
    /\ (Finished /\ cancelled) => ReturnedRepos = completed

\* C7 witness: Stop came while a pull was running and tasks were pending; the
\* call returned the killed pull's result and nothing for the pending tasks
C7_Witness ==
    /\ Finished /\ cancelled
    /\ pendingAtStop # {}
    /\ \E i \in 1..Len(updateResults) : updateResults[i].EndedBy = "cancel"
                                         /\ updateResults[i].Error = "signal: killed"
    /\ Len(updateResults) < Len(repositories)

\* C8: the callback is invoked once per completed task, in the order the results
\* are appended, and for nothing else: the invocations are the returned list.
C8_CallbackOnce ==
    hasCallback =>
        /\ callbacks = updateResults
        /\ \A i \in 1..Len(callbacks) : callbacks[i].Repository \in completed
        /\ Finished => Len(callbacks) = Cardinality(completed)

\* C8 witness: a cancelled run that returned one result and left a task undone
C8_Witness ==
    /\ Finished /\ hasCallback /\ cancelled
    /\ Len(callbacks) = 1
    /\ Cardinality(completed) = 1
    /\ Len(repositories) = 2

SamePullTwice == \E v, w \in Running : v # w /\ wk[v].repo = wk[w].repo

\* C10 as stated: every call starts exactly WorkerCount workers
C10_Original ==
    /\ mainPc \in {"collect", "returned"} => spawned = WorkerCount
    /\ Cardinality(Running) <= WorkerCount
    /\ ~SamePullTwice

\* C10 amended: a call with a non-empty input list starts exactly WorkerCount
\* workers and a call with an empty list starts none; at most WorkerCount
\* subprocesses run at once and never two for the same repository.
C10_Workers ==
    /\ (mainPc \in {"collect", "returned"} /\ Len(repositories) > 0) => spawned = WorkerCount
    /\ Len(repositories) = 0 => spawned = 0
    /\ Cardinality({w \in Workers : wk[w].pc # "off"}) = spawned
    /\ Cardinality(Running) <= WorkerCount
    /\ ~SamePullTwice

\* C10 witness: all WorkerCount workers have a subprocess running at once
C10_Witness ==
    /\ WorkerCount = 2
    /\ spawned = 2
    /\ Cardinality(Running) = 2

\* ------------------------------------------------------------------ the store
\* the row of a path (path is UNIQUE), NoRow if there is none
RowOf(path) ==
    IF \E r \in rows : r.path = path
      THEN CHOOSE r \in rows : r.path = path
      ELSE NoRow

\* SELECT ... FROM repositories WHERE path = ? AND readme_hash = ?
SelectByPathOnly(path, content) == {r \in rows : r.path = path /\ r.hash # "NULL"}
SelectCached(path, content) ==
    {r \in rows : r.path = path /\ r.hash = hashContent(content)}

\* INSERT OR REPLACE INTO repositories: the rows that conflict on the UNIQUE path
\* are deleted and the new row is inserted
InsertKeepOld(table, row) == table \cup {row}
InsertOrReplace(table, row) == {r \in table : r.path # row.path} \cup {row}

\* the row SaveDescription writes: every column comes from this one call
NewRowStaleDesc(path, content, description, params) ==
    [id |-> nextId, path |-> path, hash |-> hashContent(content),
     desc |-> IF RowOf(path) = NoRow THEN description ELSE RowOf(path).desc,
     params |-> params, created_at |-> clock, updated_at |-> clock]
NewRow(path, content, description, params) ==
    [id |-> nextId, path |-> path, hash |-> hashContent(content), desc |-> description,
     params |-> params, created_at |-> clock, updated_at |-> clock]

\* ON DELETE CASCADE: the metadata rows of deleted repositories go with them
\* when the connection enforces foreign keys
Cascade(table) ==
    IF foreignKeys
      THEN {m \in meta : \E r \in table : r.id = m.rid}
      ELSE meta

\* the counters of the cache_stats row
incrementNothing(st) == st
incrementCacheHits(st) == [st EXCEPT !.cache_hits = @ + 1]
incrementCacheMisses(st) == [st EXCEPT !.cache_misses = @ + 1]
incrementLLMAPICalls(st) == [st EXCEPT !.llm_api_calls = @ + 1]

\* if m.enableCache && !m.forceRefresh && m.cache != nil
LookupSkipped(ec, fr) == FALSE
UseCache(ec, fr) == ec /\ ~fr

InFlight(i) == proc[i].pc \in {"llm", "save"}

\* A reply of the LLM and a return to the caller touch nothing another process
\* can see, so the step that follows them in the same call (the save, the
\* caller taking the value) is taken before any other process moves: every
\* other order leads to the same store and the same returned values.
Quiet == \A j \in Procs : proc[j].pc \notin {"save", "done"}

\* the body of Manager.GetDescription up to the LLM call, for process i and the given
\* arguments and Manager fields
ManagerGetDescription(i, path, content, ec, fr, llm) ==
    LET found == SelectCached(path, content)
        others == IF ec THEN {j \in Procs \ {i} : InFlight(j) /\ proc[j].path = path}
                        ELSE {}
        mark == [j \in Procs |->
                   IF j \in others THEN [proc[j] EXCEPT !.overlapped = TRUE]
                                   ELSE proc[j]]
        \* the call as far as it has read its inputs and the Manager's fields
        empty == [IdleProc EXCEPT !.readme = content]
        nocache == [empty EXCEPT !.enableCache = ec, !.forceRefresh = fr,
                                 !.hasLLM = llm, !.params = ParamsOf(i)]
        cached == [nocache EXCEPT !.path = path, !.overlapped = others # {}]
        next == IF llm THEN "llm" ELSE "done"
    IN  IF content = ""
          THEN /\ proc' = [proc EXCEPT ![i] = [empty EXCEPT !.pc = "done"]]
               /\ UNCHANGED stats
        ELSE IF UseCache(ec, fr)
          THEN IF found # {}
                 THEN /\ proc' = [mark EXCEPT ![i] =
                             [cached EXCEPT !.pc = "done", !.hit = TRUE,
                                            !.hasLLM = FALSE,
                                            !.ret = (CHOOSE r \in found : TRUE).desc]]
                      /\ stats' = incrementCacheHits(stats)
                 ELSE /\ proc' = [mark EXCEPT ![i] =
                             [cached EXCEPT !.pc = next,
                                            !.stale = RowOf(path).hash # "NULL"]]
                      /\ stats' = incrementCacheMisses(stats)
        ELSE IF ec
          THEN /\ proc' = [mark EXCEPT ![i] = [cached EXCEPT !.pc = next]]
               /\ UNCHANGED stats
        ELSE /\ proc' = [proc EXCEPT ![i] = [nocache EXCEPT !.pc = next]]
             /\ UNCHANGED stats

\* ------------------------------------------------------------------ Manager.GetDescription
\* the call up to the LLM request: the empty-README return, the lookup
\* (GetCachedDescription with its counter updates), and the return without LLM
GetDescription(i) ==
    /\ Quiet
    /\ proc[i].pc = "idle"
    /\ calls < MaxCalls
    /\ calls' = calls + 1
    /\ \E path \in Paths, content \in Readmes \cup {""},
          ec \in BOOLEAN, fr \in BOOLEAN, llm \in BOOLEAN :
         ManagerGetDescription(i, path, content, ec, fr, llm)
    /\ UNCHANGED <<poolVars, restVars, foreignKeys, rows, nextId, meta, admin, llmCalls, lastWrite>>

\* m.llmClient.GenerateDescription fails: the error is returned, nothing is stored
LLMFails(i) ==
    /\ Quiet
    /\ proc[i].pc = "llm"
    /\ proc' = [proc EXCEPT ![i].pc = "done", ![i].err = TRUE, ![i].called = TRUE]
    /\ UNCHANGED <<poolVars, restVars, foreignKeys, rows, nextId, meta, stats, calls, admin,
                   llmCalls, lastWrite>>

\* m.llmClient.GenerateDescription returns a description
LLMReturns(i) ==
    /\ Quiet
    /\ proc[i].pc = "llm"
    /\ \E d \in DescsOf(proc[i].readme, proc[i].params) :
         proc' = [proc EXCEPT ![i].pc = IF proc[i].enableCache THEN "save" ELSE "done",
                              ![i].desc = d, ![i].called = TRUE,
                              ![i].ret = IF proc[i].enableCache THEN NoDesc ELSE d]
    /\ LET k == <<proc[i].path, hashContent(proc[i].readme)>>
       IN  llmCalls' = IF proc[i].enableCache /\ ~proc[i].forceRefresh
                         THEN llmCalls \cup {k}
                         ELSE llmCalls
    /\ UNCHANGED <<poolVars, restVars, foreignKeys, rows, nextId, meta, stats, calls, admin, lastWrite>>

\* m.cache.SaveDescription(...) and the return of the description
SaveDescription(i) ==
    /\ proc[i].pc = "save"
    /\ LET row == NewRow(proc[i].path, proc[i].readme, proc[i].desc, proc[i].params)
           table == InsertOrReplace(rows, row)
       IN  /\ rows' = table
           /\ meta' = Cascade(table)
           /\ nextId' = nextId + 1
           /\ stats' = incrementLLMAPICalls(stats)
           /\ proc' = [proc EXCEPT ![i].pc = "done", ![i].ret = proc[i].desc]
           /\ lastWrite' = [lastWrite EXCEPT ![proc[i].path] =
                                [hash |-> hashContent(proc[i].readme), desc |-> proc[i].desc,
                                 replaced |-> IF RowOf(proc[i].path) = NoRow
                                                THEN "none"
                                                ELSE RowOf(proc[i].path).hash,
                                 stale |-> proc[i].stale]]
    /\ UNCHANGED <<poolVars, restVars, foreignKeys, calls, admin, llmCalls>>

\* the caller takes the returned description; the process is free for its next call
Finish(i) ==
    /\ proc[i].pc = "done"
    /\ proc' = [proc EXCEPT ![i] = IdleProc]
    /\ UNCHANGED <<poolVars, restVars, foreignKeys, rows, nextId, meta, stats, calls, admin,
                   llmCalls, lastWrite>>

\* ------------------------------------------------------------------ maintenance
\* MetadataCache.SaveMetadata: in one transaction getOrCreateRepository and the
\* INSERT OR REPLACE INTO repository_metadata (UNIQUE(repository_id))
SaveMetadata ==
    /\ Quiet
    /\ admin < MaxAdmin
    /\ admin' = admin + 1
    /\ \E path \in Paths, sh \in StructureHashes :
         LET old == RowOf(path)
             id == IF old = NoRow THEN nextId ELSE old.id
         IN  /\ rows' = IF old = NoRow THEN rows \cup {[NoRow EXCEPT !.id = nextId, !.path = path,
                                                !.created_at = clock, !.updated_at = clock]}
                                       ELSE rows
             /\ nextId' = IF old = NoRow THEN nextId + 1 ELSE nextId
             /\ meta' = {m \in meta : m.rid # id} \cup {[rid |-> id, structure_hash |-> sh]}
    /\ UNCHANGED <<poolVars, restVars, foreignKeys, stats, proc, calls, llmCalls, lastWrite>>

\* Cache.RefreshRepository: DELETE FROM repositories WHERE path = ?
RefreshRepository ==
    /\ Quiet
    /\ admin < MaxAdmin
    /\ admin' = admin + 1
    /\ \E path \in Paths :
         LET table == {r \in rows : r.path # path}
         IN  /\ rows' = table
             /\ meta' = Cascade(table)
             /\ llmCalls' = {k \in llmCalls : k[1] # path}
             /\ lastWrite' = [lastWrite EXCEPT ![path] = NoWrite]
    /\ UNCHANGED <<poolVars, restVars, foreignKeys, nextId, stats, proc, calls>>

\* Cache.ClearCache: one transaction deletes every table and resets the counters
ClearCache ==
    /\ Quiet
    /\ admin < MaxAdmin
    /\ admin' = admin + 1
    /\ rows' = {}
    /\ meta' = {}
    /\ stats' = [cache_hits |-> 0, cache_misses |-> 0, llm_api_calls |-> 0]
    /\ llmCalls' = {}
    /\ lastWrite' = [q \in Paths |-> NoWrite]
    /\ UNCHANGED <<poolVars, restVars, foreignKeys, nextId, proc, calls>>

\* the pool is not in use while the cache is exercised
PoolIdle ==
    /\ repositories = <<>>
    /\ WorkerCount = 0
    /\ DryRun = FALSE
    /\ hasCallback = FALSE
    /\ stoppedBefore = FALSE
    /\ cancelled = FALSE
    /\ mainPc = "entry"
    /\ spawned = 0
    /\ producerPc = "off"
    /\ nextJob = 1
    /\ closerPc = "off"
    /\ jobs = <<>>
    /\ jobsClosed = FALSE
    /\ results = <<>>
    /\ resultsClosed = FALSE
    /\ wk = [w \in Workers |-> IdleWorker]
    /\ updateResults = <<>>
    /\ callbacks = <<>>
    /\ retErr = "unset"
    /\ taken = [r \in Range(RepoNames) |-> 0]
    /\ pulls = [r \in Range(RepoNames) |-> 0]
    /\ started = {}
    /\ completed = {}
    /\ pendingAtStop = {}
    /\ late = {}
    /\ panicked = FALSE

InitCache ==
    /\ PoolIdle
    /\ foreignKeys \in BOOLEAN
    /\ CacheIdle
    /\ RestIdle

NextCache ==
    \/ \E i \in Procs : GetDescription(i)
    \/ \E i \in Procs : LLMFails(i)
    \/ \E i \in Procs : LLMReturns(i)
    \/ \E i \in Procs : SaveDescription(i)
    \/ \E i \in Procs : Finish(i)
    \/ SaveMetadata
    \/ RefreshRepository
    \/ ClearCache

SpecCache == InitCache /\ [][NextCache]_vars

\* ------------------------------------------------------------------ properties of the cache
\* the step in which process i begins a GetDescription call that consults the cache
Lookup(i) ==
    /\ proc[i].pc = "idle"
    /\ proc'[i].pc # "idle"
    /\ proc'[i].readme # ""
    /\ proc'[i].enableCache
    /\ ~proc'[i].forceRefresh

\* the step in which the LLM answers a call that consulted the cache
CachedLLMReply(i) ==
    /\ proc[i].pc = "llm"
    /\ proc'[i].pc = "save"
    /\ proc[i].enableCache
    /\ ~proc[i].forceRefresh

KeyOf(i) == <<proc[i].path, hashContent(proc[i].readme)>>

C6_OneRowPerPath ==
    /\ \A r1, r2 \in rows : r1.path = r2.path => r1 = r2
    /\ \A r \in rows :
          IF r.hash = "NULL"
            THEN r.desc = NoDesc
            ELSE /\ r.hash = lastWrite[r.path].hash
                 /\ r.desc = lastWrite[r.path].desc
                 /\ r.hash = hashContent(r.desc.src)

\* C6 witness: a row that replaced the row of another README, beside a row
\* that a metadata save created
C6_Witness ==
    /\ \E r \in rows : /\ r.hash # "NULL"
                       /\ lastWrite[r.path].replaced \notin {"none", "NULL", r.hash}
    /\ \E r \in rows : r.hash = "NULL"

\* ------------------------------------------------------------------ Scanner.ScanDirectory
\* the variables a scan leaves alone
notScanVars == <<poolVars, cacheVars, filterVars, saveVars, clearVars, listVars, statusVars, runVars,
                readmeVars, pullVars, collectVars>>

Repository(n) == [Path |-> n, Name |-> n, IsGitRepo |-> TRUE]

\* info.IsDir(); an entry of kind "dotgit" is a directory whose own name is .git
IsDir(n) == fs[n].kind \in {"dir", "dotgit"}

\* os.Stat(filepath.Join(path, ".git")) succeeds
isGitRepository(n) == fs[n].git

\* the names readDirNames returns for directory n
Children(n) == {m \in Nodes : fs[m].parent = n}

RECURSIVE Ancestors(_)
Ancestors(n) == IF fs[n].parent = 0 THEN {}
                ELSE {fs[n].parent} \union Ancestors(fs[n].parent)

\* what the callback returns for a repository, if it went on below it
DescendRepository == "nil"

\* what the callback returns for a repository
SkipRepository == "SkipDir"

\* the callback ScanDirectory gives to filepath.Walk, called for entry n; err says
\* that Lstat or the directory listing of n failed
walkFn(n, err) ==
    IF err THEN [ret |-> "nil", append |-> FALSE]
    ELSE IF ~IsDir(n) THEN [ret |-> "nil", append |-> FALSE]
    ELSE IF isGitRepository(n) THEN [ret |-> SkipRepository, append |-> TRUE]
    ELSE IF fs[n].kind = "dotgit" THEN [ret |-> "SkipDir", append |-> FALSE]
    ELSE [ret |-> "nil", append |-> FALSE]

\* filepath's walk(path, info, walkFn) up to its loop over the names: the callback's
\* answer and whether the loop is entered
walk(n) ==
    IF ~IsDir(n) THEN [cb |-> walkFn(n, FALSE), descend |-> FALSE]
    ELSE LET err == ~fs[n].readable
             cb == walkFn(n, err)
         IN  [cb |-> cb, descend |-> ~err /\ cb.ret = "nil"]

Called(n, cb) ==
    /\ visited' = visited \union {n}
    /\ scanRepos' = IF cb.append THEN Append(scanRepos, Repository(n)) ELSE scanRepos

\* filepath.Walk(rootPath, fn): Lstat of the root and the first call of the callback
Walk ==
    /\ scanPc = "call"
    /\ IF fs[Root].kind = "gone"
       THEN LET cb == walkFn(Root, TRUE)
            IN  /\ Called(Root, cb)
                /\ walkErr' = IF cb.ret = "SkipDir" THEN "nil" ELSE cb.ret
                /\ scanPc' = "walked"
                /\ UNCHANGED walkStack
       ELSE LET w == walk(Root)
            IN  /\ Called(Root, w.cb)
                /\ IF w.descend
                   THEN /\ walkStack' = <<[path |-> Root, names |-> Children(Root)]>>
                        /\ scanPc' = "walk"
                        /\ UNCHANGED walkErr
                   ELSE /\ walkErr' = IF w.cb.ret = "SkipDir" THEN "nil" ELSE w.cb.ret
                        /\ scanPc' = "walked"
                        /\ UNCHANGED walkStack
    /\ UNCHANGED <<fs, scanRet, notScanVars>>

\* what walk does with the value r that came back for entry c of the innermost
\* directory, whose frame without c is rest
Came(c, r, below, rest) ==
    IF r = "nil" \/ (r = "SkipDir" /\ (IsDir(c) \/ fs[c].kind = "gone"))
    THEN /\ walkStack' = below \o <<rest>>
         /\ UNCHANGED <<walkErr, scanPc>>
    ELSE IF r = "SkipDir"
    THEN \* SkipDir for a file: the rest of the directory is skipped
         /\ walkStack' = below
         /\ IF below = <<>>
            THEN walkErr' = "nil" /\ scanPc' = "walked"
            ELSE UNCHANGED <<walkErr, scanPc>>
    ELSE \* any other error ends the walk
         /\ walkStack' = <<>>
         /\ walkErr' = r
         /\ scanPc' = "walked"

\* one round of walk's loop over the names of the innermost directory
WalkEntry ==
    /\ scanPc = "walk"
    /\ walkStack # <<>>
    /\ LET top == walkStack[Len(walkStack)]
           below == SubSeq(walkStack, 1, Len(walkStack) - 1)
       IN  /\ top.names # {}
           /\ LET c == CHOOSE m \in top.names : \A k \in top.names : m <= k
                  rest == [top EXCEPT !.names = @ \ {c}]
              IN  IF fs[c].kind = "gone"
                  THEN LET cb == walkFn(c, TRUE)
                       IN  Called(c, cb) /\ Came(c, cb.ret, below, rest)
                  ELSE LET w == walk(c)
                       IN  /\ Called(c, w.cb)
                           /\ IF w.descend
                              THEN /\ walkStack' = below \o
                                          <<rest, [path |-> c, names |-> Children(c)]>>
                                   /\ UNCHANGED <<walkErr, scanPc>>
                              ELSE Came(c, w.cb.ret, below, rest)
    /\ UNCHANGED <<fs, scanRet, notScanVars>>

\* the loop over the names of the innermost directory ends
WalkLeave ==
    /\ scanPc = "walk"
    /\ walkStack # <<>>
    /\ walkStack[Len(walkStack)].names = {}
    /\ walkStack' = SubSeq(walkStack, 1, Len(walkStack) - 1)
    /\ IF Len(walkStack) = 1
       THEN walkErr' = "nil" /\ scanPc' = "walked"
       ELSE UNCHANGED <<walkErr, scanPc>>
    /\ UNCHANGED <<fs, scanRepos, scanRet, visited, notScanVars>>

\* ScanDirectory returns
ScanReturn ==
    /\ scanPc = "walked"
    /\ scanRet' = IF walkErr # "nil" THEN [repos |-> <<>>, err |-> walkErr]
                  ELSE [repos |-> scanRepos, err |-> "nil"]
    /\ scanPc' = "returned"
    /\ UNCHANGED <<fs, walkStack, walkErr, scanRepos, visited, notScanVars>>

\* runUpdate after the scan (no include or exclude patterns)
RunUpdateScanned ==
    /\ scanPc = "returned"
    /\ scanPc' = IF scanRet.err # "nil" THEN "exit1"
                 ELSE IF Len(scanRet.repos) = 0 THEN "norepos"
                 ELSE "update"
    /\ UNCHANGED <<fs, walkStack, walkErr, scanRepos, scanRet, visited, notScanVars>>

\* the attributes an entry can have
Attrs(n) ==
    {[kind |-> "gone", git |-> FALSE, readable |-> FALSE],
     [kind |-> "file", git |-> FALSE, readable |-> FALSE]}
    \union {[kind |-> "dir", git |-> g, readable |-> r] : g, r \in BOOLEAN}
    \union (IF n = Root THEN {[kind |-> "dotgit", git |-> FALSE, readable |-> TRUE]}
            ELSE {})

\* the trees: every entry but the root lies in a directory, entries are numbered in
\* the order of their names
Trees ==
    {[n \in Nodes |-> [parent |-> par[n], kind |-> att[n].kind, git |-> att[n].git,
                       readable |-> att[n].readable]] :
        par \in {q \in [Nodes -> 0..MaxNodes] :
                    /\ q[Root] = 0
                    /\ \A n \in Nodes \ {Root} : q[n] \in 1..(n - 1)},
        att \in {a \in [Nodes -> UNION {Attrs(n) : n \in Nodes}] :
                    \A n \in Nodes : a[n] \in Attrs(n)}}

InitScan ==
    /\ PoolIdle
    /\ foreignKeys = TRUE
    /\ CacheIdle
    /\ OthersIdle("scan")
    /\ fs \in {t \in Trees : \A n \in Nodes \ {Root} :
                                 t[t[n].parent].kind \in {"dir", "dotgit"}}
    /\ scanPc = "call"
    /\ walkStack = <<>>
    /\ walkErr = "unset"
    /\ scanRepos = <<>>
    /\ scanRet = NoScanRet
    /\ visited = {}

NextScan ==
    \/ Walk
    \/ WalkEntry
    \/ WalkLeave
    \/ ScanReturn
    \/ RunUpdateScanned

SpecScan == InitScan /\ [][NextScan]_vars

\* ------------------------------------------------------------------ properties of the scan
ScanDone == scanPc \in {"returned", "exit1", "norepos", "update"}
Reported == {scanRet.repos[i].Path : i \in 1..Len(scanRet.repos)}

\* the walk reaches entry n: every directory above it could be listed and is
\* neither a repository nor named .git
Reached(n) ==
    \A a \in Ancestors(n) : fs[a].kind = "dir" /\ fs[a].readable /\ ~fs[a].git

\* nothing below a directory with a .git entry is inspected or reported, and what is
\* reported is a directory with a .git entry, marked as a repository, listed once
ScanSafe ==
    /\ \A n \in visited : \A a \in Ancestors(n) : ~fs[a].git
    /\ \A i \in 1..Len(scanRepos) :
          /\ IsDir(scanRepos[i].Path)
          /\ fs[scanRepos[i].Path].git
          /\ scanRepos[i].IsGitRepo
          /\ \A a \in Ancestors(scanRepos[i].Path) : ~fs[a].git
          /\ \A j \in 1..Len(scanRepos) : scanRepos[j].Path = scanRepos[i].Path => j = i

\* C11 as stated: every directory with a .git entry that does not lie below another
\* one is reported, nothing below it is, and every reported path has a .git entry
C11_Original ==
    /\ ScanSafe
    /\ ScanDone =>
          \A d \in Nodes :
              (IsDir(d) /\ fs[d].git /\ \A a \in Ancestors(d) : ~fs[a].git)
                  => d \in Reported

\* C11: ScanDirectory reports exactly the directories with a .git entry that the walk
\* reaches and can list; nothing below a directory with a .git entry is inspected or
\* reported; every reported path has a .git entry and is marked as a repository
C11_Scan ==
    /\ ScanSafe
    /\ ScanDone =>
          /\ scanRet.err = "nil"
          /\ Reported = {d \in Nodes : /\ fs[d].kind = "dir"
                                       /\ fs[d].git
                                       /\ fs[d].readable
                                       /\ Reached(d)}

\* a finished scan that reported a repository with a repository nested in it, and
\* passed over a directory with a .git entry that could not be listed
C11_Witness ==
    /\ scanPc = "update"
    /\ \E r \in Reported : \E d \in Nodes : r \in Ancestors(d) /\ fs[d].git
    /\ \E u \in Nodes : Reached(u) /\ fs[u].git /\ ~fs[u].readable /\ u \notin Reported

\* C13 as stated: ScanDirectory returns an error, and the command exits before any
\* repository is processed, exactly when the root cannot be accessed
C13_Original ==
    ScanDone =>
        /\ scanRet.err # "nil" <=> (fs[Root].kind = "gone" \/ ~fs[Root].readable)
        /\ scanPc # "returned" =>
              (scanPc = "exit1" <=> (fs[Root].kind = "gone" \/ ~fs[Root].readable))

\* ------------------------------------------------------------------ Scanner.ScanDirectoryWithFilter
notFilterVars == <<poolVars, cacheVars, scanVars, saveVars, clearVars, listVars, statusVars, runVars,
                readmeVars, pullVars, collectVars>>

\* strings are sequences of characters
Str1(a) == <<a>>
Str2(a, b) == <<a, b>>

\* strings.ToLower on one character, if it kept the case
KeepCase(c) == c

\* strings.ToLower on one character
LowerChar(c) == CASE c = "A" -> "a"
                  [] c = "B" -> "b"
                  [] c = "X" -> "x"
                  [] OTHER -> c

\* strings.ToLower
ToLower(str) == [i \in 1..Len(str) |-> LowerChar(str[i])]

\* strings.Contains
Contains(str, substr) ==
    \E i \in 1..(Len(str) - Len(substr) + 1) :
        SubSeq(str, i, i + Len(substr) - 1) = substr

\* shouldIncludeRepository
shouldIncludeRepository(repo, inc, exc) ==
    LET repoName == ToLower(repo.Name)
        repoPath == ToLower(repo.Path)
        Hit(pattern) == \/ Contains(repoName, ToLower(pattern))
                        \/ Contains(repoPath, ToLower(pattern))
    IN  IF \E i \in 1..Len(exc) : Hit(exc[i]) THEN FALSE
        ELSE IF Len(inc) = 0 THEN TRUE
        ELSE IF \E i \in 1..Len(inc) : Hit(inc[i]) THEN TRUE
        ELSE FALSE

\* the repositories of the scanned tree: Path and Name = filepath.Base(Path)
ScannedRepos ==
    <<[Path |-> <<"/", "w", "/", "A", "b">>, Name |-> <<"A", "b">>, IsGitRepo |-> TRUE],
      [Path |-> <<"/", "w", "/", "b">>, Name |-> <<"b">>, IsGitRepo |-> TRUE],
      [Path |-> <<"/", "A", "/", "x">>, Name |-> <<"x">>, IsGitRepo |-> TRUE]>>

\* the patterns a list is drawn from; the empty pattern is one of them
Patterns ==
    {<<>>, Str1("a"), Str1("A"), Str1("b"), Str1("B"), Str1("X"),
     Str2("a", "b"), Str2("A", "B"), Str2("/", "a")}

RECURSIVE SetToSeq(_)
SetToSeq(S) == IF S = {} THEN <<>>
               ELSE LET x == CHOOSE y \in S : TRUE
                    IN  <<x>> \o SetToSeq(S \ {x})

\* the pattern lists: up to MaxPatterns different patterns
PatternLists ==
    {SetToSeq(S) : S \in {T \in SUBSET Patterns : Cardinality(T) <= MaxPatterns}}

\* ScanDirectoryWithFilter after ScanDirectory returned without error: the early
\* return for two empty lists
FilterNone ==
    /\ filterPc = "call"
    /\ Len(includePatterns) = 0 /\ Len(excludePatterns) = 0
    /\ filterRet' = scanned
    /\ filterPc' = "done"
    /\ UNCHANGED <<includePatterns, excludePatterns, scanned, filterIdx, filtered,
                   notFilterVars>>

\* some list is not empty: the loop begins
FilterBegin ==
    /\ filterPc = "call"
    /\ ~(Len(includePatterns) = 0 /\ Len(excludePatterns) = 0)
    /\ filtered' = <<>>
    /\ filterIdx' = 1
    /\ filterPc' = "loop"
    /\ UNCHANGED <<includePatterns, excludePatterns, scanned, filterRet, notFilterVars>>

\* one round of the loop
FilterNext ==
    /\ filterPc = "loop"
    /\ filterIdx <= Len(scanned)
    /\ filtered' = IF shouldIncludeRepository(scanned[filterIdx], includePatterns,
                                              excludePatterns)
                   THEN Append(filtered, scanned[filterIdx])
                   ELSE filtered
    /\ filterIdx' = filterIdx + 1
    /\ UNCHANGED <<includePatterns, excludePatterns, scanned, filterPc, filterRet,
                   notFilterVars>>

\* the loop is over
FilterReturn ==
    /\ filterPc = "loop"
    /\ filterIdx > Len(scanned)
    /\ filterRet' = filtered
    /\ filterPc' = "done"
    /\ UNCHANGED <<includePatterns, excludePatterns, scanned, filterIdx, filtered,
                   notFilterVars>>

InitFilter ==
    /\ PoolIdle
    /\ foreignKeys = TRUE
    /\ CacheIdle
    /\ OthersIdle("filter")
    /\ includePatterns \in PatternLists
    /\ excludePatterns \in PatternLists
    /\ \E n \in 0..Len(ScannedRepos) : scanned = SubSeq(ScannedRepos, 1, n)
    /\ filterIdx = 1
    /\ filtered = <<>>
    /\ filterPc = "call"
    /\ filterRet = <<>>

NextFilter ==
    \/ FilterNone
    \/ FilterBegin
    \/ FilterNext
    \/ FilterReturn

SpecFilter == InitFilter /\ [][NextFilter]_vars

\* ------------------------------------------------------------------ properties of the filter
\* two characters are the same letter
SameLetter(c, d) ==
    c = d \/ {c, d} \in {{"a", "A"}, {"b", "B"}, {"x", "X"}}

\* pattern is a substring of str when case is ignored
FoldContains(str, pattern) ==
    \E i \in 0..(Len(str) - Len(pattern)) :
        \A k \in 1..Len(pattern) : SameLetter(str[i + k], pattern[k])

\* pattern occurs in the basename or the path of repo
Matches(repo, pattern) ==
    FoldContains(repo.Name, pattern) \/ FoldContains(repo.Path, pattern)

\* p and q differ at most in letter case
SameButCase(p, q) ==
    Len(p) = Len(q) /\ \A k \in 1..Len(p) : SameLetter(p[k], q[k])

\* what ScanDirectoryWithFilter returns for the scanned list and two pattern lists
FilterResult(inc, exc) ==
    LET Keep(repo) == shouldIncludeRepository(repo, inc, exc)
    IN  IF Len(inc) = 0 /\ Len(exc) = 0 THEN scanned ELSE SelectSeq(scanned, Keep)

\* C12: ScanDirectoryWithFilter returns, in scan order, exactly the repositories that
\* no exclude pattern matches and that, if there are include patterns, some include
\* pattern matches, a match being a case-insensitive substring of the basename or the
\* path; an exclude match drops a repository whatever the include list says; a pattern
\* replaced by one that differs only in letter case gives the same result
C12_Filter ==
    filterPc = "done" =>
        LET Kept(repo) ==
                /\ \A i \in 1..Len(excludePatterns) : ~Matches(repo, excludePatterns[i])
                /\ \/ Len(includePatterns) = 0
                   \/ \E i \in 1..Len(includePatterns) : Matches(repo, includePatterns[i])
        IN  /\ filterRet = SelectSeq(scanned, Kept)
            /\ \A j \in 1..Len(scanned) :
                  (\E i \in 1..Len(excludePatterns) : Matches(scanned[j], excludePatterns[i]))
                      => \A k \in 1..Len(filterRet) : filterRet[k] # scanned[j]
            /\ \A q \in Patterns :
                  /\ \A i \in 1..Len(includePatterns) :
                        SameButCase(includePatterns[i], q) =>
                            FilterResult([includePatterns EXCEPT ![i] = q],
                                         excludePatterns) = filterRet
                  /\ \A i \in 1..Len(excludePatterns) :
                        SameButCase(excludePatterns[i], q) =>
                            FilterResult(includePatterns,
                                         [excludePatterns EXCEPT ![i] = q]) = filterRet

\* a finished filter in which an upper-case include pattern matched two repositories
\* and a lower-case exclude pattern removed one of them, whose name is in upper case
C12_Witness ==
    /\ filterPc = "done"
    /\ scanned = ScannedRepos
    /\ includePatterns = <<Str1("B")>>
    /\ excludePatterns = <<Str1("a")>>
    /\ filterRet = <<ScannedRepos[2]>>

\* ------------------------------------------------------------------ Cache.SaveDescription, called directly
notSaveVars == <<poolVars, scanVars, filterVars, clearVars, listVars, statusVars, runVars,
                readmeVars, pullVars, collectVars>>

\* Cache.SaveDescription(repoPath, repoName, readmeContent, description, ...)
CacheSaveDescription ==
    /\ Len(saves) < MaxCalls
    /\ \E path \in Paths, content \in Readmes, src \in Readmes :
         LET params == ParamsOf(1)
             description == CHOOSE d \in DescsOf(src, params) : TRUE
             row == NewRow(path, content, description, params)
             table == InsertOrReplace(rows, row)
         IN  /\ rows' = table
             /\ meta' = Cascade(table)
             /\ nextId' = nextId + 1
             /\ stats' = incrementLLMAPICalls(stats)
             /\ lastWrite' = [lastWrite EXCEPT ![path] =
                                  [hash |-> hashContent(content), desc |-> description,
                                   replaced |-> IF RowOf(path) = NoRow THEN "none"
                                                ELSE RowOf(path).hash,
                                   stale |-> FALSE]]
             /\ saves' = Append(saves, [path |-> path, content |-> content,
                                        description |-> description, at |-> clock,
                                        created_at |-> row.created_at])
    /\ UNCHANGED <<foreignKeys, proc, calls, admin, llmCalls, clock, notSaveVars>>

\* a second passes
ClockTick ==
    /\ clock < MaxClock
    /\ clock' = clock + 1
    /\ UNCHANGED <<saves, cacheVars, notSaveVars>>

InitSave == InitCache

NextSave ==
    \/ CacheSaveDescription
    \/ ClockTick

SpecSave == InitSave /\ [][NextSave]_vars

\* the last two SaveDescription calls had the same path, README and description
SavedTwice ==
    /\ Len(saves) >= 2
    /\ LET a == saves[Len(saves) - 1]
           b == saves[Len(saves)]
       IN  a.path = b.path /\ a.content = b.content /\ a.description = b.description

\* C14 as stated: after the same (path, README, description) was saved twice there is
\* exactly one row for the path, its created_at is the value the first save set and
\* its updated_at is the time of the second save
C14_Original ==
    SavedTwice =>
        LET a == saves[Len(saves) - 1]
            b == saves[Len(saves)]
        IN  /\ Cardinality({r \in rows : r.path = b.path}) = 1
            /\ RowOf(b.path).created_at = a.created_at
            /\ RowOf(b.path).updated_at = b.at

\* ------------------------------------------------------------------ the counters of the cache
\* the step in which process i begins a GetDescription call
Begins(i) == proc[i].pc = "idle" /\ proc'[i].pc # "idle"

\* ... and finds the description in the store
HitStep(i) == Begins(i) /\ proc'[i].hit

\* ... and looks the description up without finding it
MissStep(i) ==
    /\ Begins(i)
    /\ proc'[i].enableCache /\ ~proc'[i].forceRefresh
    /\ ~proc'[i].hit

\* a step that writes a description row
StoreStep == \E r \in rows' \ rows : r.hash # "NULL"

\* a step of ClearCache
ClearStep == admin' # admin /\ rows' = {} /\ meta' = {}

notClearVars == <<poolVars, scanVars, filterVars, saveVars, listVars, statusVars, runVars,
                readmeVars, pullVars, collectVars>>

\* the list tables of ClearCache, if repository_tags were missing from it
ClearTablesShort ==
    <<"repository_dependencies", "repository_licenses", "repository_frameworks",
      "repository_metadata", "repository_languages", "repositories">>

\* the list tables of ClearCache
ClearTables ==
    <<"repository_dependencies", "repository_licenses", "repository_frameworks",
      "repository_metadata", "repository_languages", "repository_tags", "repositories">>

\* the tables of the schema that hold cached data
DataTables == SideTables \union {"repositories", "repository_metadata"}

ZeroStats == [cache_hits |-> 0, cache_misses |-> 0, llm_api_calls |-> 0]

\* the committed content of the store
CurrentStore ==
    [t \in DataTables \union {"cache_stats"} |->
        CASE t = "repositories" -> rows
          [] t = "repository_metadata" -> meta
          [] t = "cache_stats" -> stats
          [] OTHER -> side[t]]

\* c.db.Begin() succeeds
ClearBegin ==
    /\ tx.pc = "none"
    /\ tx' = [pc |-> "open", step |-> 1, view |-> CurrentStore]
    /\ before' = CurrentStore
    /\ UNCHANGED <<side, cacheVars, notClearVars>>

\* c.db.Begin() fails
ClearBeginFails ==
    /\ tx.pc = "none"
    /\ tx' = [tx EXCEPT !.pc = "failed"]
    /\ before' = CurrentStore
    /\ UNCHANGED <<side, cacheVars, notClearVars>>

\* tx.Exec("DELETE FROM " + table) succeeds for the next table of the list
ClearDelete ==
    /\ tx.pc = "open"
    /\ tx.step <= Len(ClearTables)
    /\ tx' = [tx EXCEPT !.view[ClearTables[tx.step]] = {}, !.step = @ + 1]
    /\ UNCHANGED <<side, before, cacheVars, notClearVars>>

\* tx.Exec("UPDATE cache_stats SET ... WHERE id=1") succeeds
ClearReset ==
    /\ tx.pc = "open"
    /\ tx.step = Len(ClearTables) + 1
    /\ tx' = [tx EXCEPT !.view["cache_stats"] = ZeroStats, !.step = @ + 1]
    /\ UNCHANGED <<side, before, cacheVars, notClearVars>>

\* tx.Commit() succeeds: the view of the transaction becomes the store
ClearCommit ==
    /\ tx.pc = "open"
    /\ tx.step = Len(ClearTables) + 2
    /\ rows' = tx.view["repositories"]
    /\ meta' = tx.view["repository_metadata"]
    /\ stats' = tx.view["cache_stats"]
    /\ side' = [t \in SideTables |-> tx.view[t]]
    /\ tx' = [tx EXCEPT !.pc = "committed"]
    /\ llmCalls' = {}
    /\ lastWrite' = [q \in Paths |-> NoWrite]
    /\ UNCHANGED <<before, foreignKeys, nextId, proc, calls, admin, notClearVars>>

\* a statement of the transaction or the commit fails: ClearCache returns the error
\* and the deferred tx.Rollback() drops the view
ClearFails ==
    /\ tx.pc = "open"
    /\ tx' = [tx EXCEPT !.pc = "rolledback"]
    /\ UNCHANGED <<side, before, cacheVars, notClearVars>>

\* a row of table repositories
SampleRow(path, id) ==
    [id |-> id, path |-> path, hash |-> hashContent("A"),
     desc |-> CHOOSE d \in DescsOf("A", ParamsOf(1)) : TRUE,
     params |-> ParamsOf(1), created_at |-> 0, updated_at |-> 0]

\* a store with some content in it
InitClear ==
    /\ PoolIdle
    /\ OthersIdle("clear")
    /\ foreignKeys \in BOOLEAN
    /\ rows \in SUBSET {SampleRow("/r1", 1), SampleRow("/r2", 2)}
    /\ nextId = 3
    /\ meta \in SUBSET {[rid |-> 1, structure_hash |-> "s1"]}
    /\ side \in [SideTables -> {{}, {1}}]
    /\ stats \in [{"cache_hits", "cache_misses", "llm_api_calls"} -> {0, 1}]
    /\ proc = [i \in Procs |-> IdleProc]
    /\ calls = 0
    /\ admin = 0
    /\ llmCalls = {}
    /\ lastWrite = [q \in Paths |-> NoWrite]
    /\ tx = NoTx
    /\ before = <<>>

NextClear ==
    \/ ClearBegin
    \/ ClearBeginFails
    \/ ClearDelete
    \/ ClearReset
    \/ ClearCommit
    \/ ClearFails

SpecClear == InitClear /\ [][NextClear]_vars

\* C16: when ClearCache has succeeded every data table of the store is empty and the
\* counters are 0; while its transaction is open, and when it has failed at any step,
\* the store is exactly what it was when ClearCache was called
C16_Clear ==
    /\ tx.pc = "committed" =>
          /\ \A t \in DataTables : CurrentStore[t] = {}
          /\ stats = ZeroStats
    /\ tx.pc \in {"open", "failed", "rolledback"} => CurrentStore = before

\* ClearCache failed at the reset of the counters, after every table was deleted in
\* the transaction, on a store that had rows in every table and counters above 0
C16_Witness ==
    /\ tx.pc = "rolledback"
    /\ tx.step = Len(ClearTables) + 1
    /\ \A t \in DataTables : CurrentStore[t] # {} /\ tx.view[t] = {}
    /\ stats = [cache_hits |-> 1, cache_misses |-> 1, llm_api_calls |-> 1]

\* ------------------------------------------------------------------ CachedScanner.ScanDirectoryWithDescription
notListVars == <<poolVars, scanVars, filterVars, saveVars, clearVars, statusVars, runVars,
                readmeVars, pullVars, collectVars>>

\* the process that runs the list operation
Lister == 1

NoDescriptionAvailable == [src |-> "", lang |-> "No description available"]

\* the description of a failed call, if it were kept
errorDescription(readmeContent) == NoDesc

\* fallbackDescription: the first meaningful line of the README; README "B" has none
fallbackDescription(readmeContent) ==
    IF readmeContent = "A" THEN [src |-> "A", lang |-> "first line"]
    ELSE NoDescriptionAvailable

RepoWithDesc(path, description, failed) ==
    [Path |-> path, Description |-> description, failed |-> failed]

\* the loop body up to the call of cs.cacheManager.GetDescription
ListCall ==
    /\ listPc = "loop"
    /\ listIdx <= Len(listRepos)
    /\ listCfg.hasManager
    /\ Quiet
    /\ proc[Lister].pc = "idle"
    /\ calls' = calls + 1
    /\ ManagerGetDescription(Lister, listRepos[listIdx], listReadme[listRepos[listIdx]],
                             listCfg.enableCache, listCfg.forceRefresh, listCfg.hasLLM)
    /\ listPc' = "call"
    /\ UNCHANGED <<listCfg, listRepos, listReadme, listIdx, reposWithDesc, foreignKeys,
                   rows, nextId, meta, admin, llmCalls, lastWrite, notListVars>>

\* GetDescription has returned: on an error the fallback description replaces the
\* result; the entry is appended
ListTake ==
    /\ listPc = "call"
    /\ proc[Lister].pc = "done"
    /\ LET path == listRepos[listIdx]
           description == IF proc[Lister].err
                            THEN fallbackDescription(listReadme[path])
                            ELSE proc[Lister].ret
       IN  reposWithDesc' = Append(reposWithDesc,
                                   RepoWithDesc(path, description, proc[Lister].err))
    /\ proc' = [proc EXCEPT ![Lister] = IdleProc]
    /\ listIdx' = listIdx + 1
    /\ listPc' = "loop"
    /\ UNCHANGED <<listCfg, listRepos, listReadme, foreignKeys, rows, nextId, meta, stats,
                   calls, admin, llmCalls, lastWrite, notListVars>>

\* the loop body without a cache manager
ListNoManager ==
    /\ listPc = "loop"
    /\ listIdx <= Len(listRepos)
    /\ ~listCfg.hasManager
    /\ LET path == listRepos[listIdx]
       IN  reposWithDesc' = Append(reposWithDesc,
                                   RepoWithDesc(path, fallbackDescription(listReadme[path]),
                                                FALSE))
    /\ listIdx' = listIdx + 1
    /\ UNCHANGED <<listCfg, listRepos, listReadme, listPc, cacheVars, notListVars>>

\* return reposWithDesc, nil
ListReturn ==
    /\ listPc = "loop"
    /\ listIdx > Len(listRepos)
    /\ listPc' = "done"
    /\ UNCHANGED <<listCfg, listRepos, listReadme, listIdx, reposWithDesc, cacheVars,
                   notListVars>>

\* the lists of repositories a scan can return
ScannedPaths == {<<>>, <<"/r1">>, <<"/r2">>, <<"/r1", "/r2">>, <<"/r2", "/r1">>}

InitList ==
    /\ PoolIdle
    /\ OthersIdle("list")
    /\ foreignKeys \in BOOLEAN
    /\ rows \in SUBSET {SampleRow("/r1", 1)}
    /\ nextId = 2
    /\ meta \in SUBSET {[rid |-> 1, structure_hash |-> "s1"]}
    /\ stats = ZeroStats
    /\ proc = [i \in Procs |-> IdleProc]
    /\ calls = 0
    /\ admin = 0
    /\ llmCalls = {}
    /\ lastWrite = [q \in Paths |-> NoWrite]
    /\ listCfg \in {c \in [hasManager : BOOLEAN, enableCache : BOOLEAN,
                          forceRefresh : BOOLEAN, hasLLM : BOOLEAN] :
                       ~c.hasManager => c = NoListCfg}
    /\ listRepos \in ScannedPaths
    /\ listReadme \in [Paths -> Readmes \union {""}]
    /\ listIdx = 1
    /\ listPc = "loop"
    /\ reposWithDesc = <<>>

NextList ==
    \/ ListCall
    \/ LLMFails(Lister)
    \/ LLMReturns(Lister)
    \/ SaveDescription(Lister)
    \/ ListTake
    \/ ListNoManager
    \/ ListReturn

SpecList == InitList /\ [][NextList]_vars

\* the step in which the LLM call of process i fails
LLMFailStep(i) == proc[i].pc = "llm" /\ proc'[i].pc # "llm" /\ proc'[i].desc = NoDesc

\* C17: the step in which the LLM call fails writes and changes no row and no counter
\* and returns an error with an empty description; the list operation puts the README
\* fallback description in place of every failed result and goes on, so that the
\* returned list has one entry per scanned repository, in scan order
C17_LLMFailure ==
    /\ [][\A i \in Procs :
             LLMFailStep(i) =>
                 /\ rows' = rows /\ meta' = meta /\ side' = side
                 /\ stats' = stats
                 /\ proc'[i].err /\ proc'[i].ret = NoDesc /\ proc'[i].pc = "done"]_vars
    /\ [](/\ Len(reposWithDesc) <= Len(listRepos)
          /\ listPc = "done" => Len(reposWithDesc) = Len(listRepos)
          /\ \A k \in 1..Len(reposWithDesc) :
                /\ reposWithDesc[k].Path = listRepos[k]
                /\ reposWithDesc[k].failed =>
                      LET readme == listReadme[listRepos[k]]
                      IN  reposWithDesc[k].Description =
                              IF readme = "A" THEN [src |-> "A", lang |-> "first line"]
                              ELSE NoDescriptionAvailable)

\* a finished list of two repositories: the LLM failed for the first, whose entry has
\* the fallback description and whose row is still the old one, and answered for the
\* second
C17_Witness ==
    /\ listPc = "done"
    /\ Len(reposWithDesc) = 2
    /\ reposWithDesc[1].failed /\ reposWithDesc[1].Path = "/r1"
    /\ reposWithDesc[1].Description = [src |-> "A", lang |-> "first line"]
    /\ SampleRow("/r1", 1) \in rows
    /\ ~reposWithDesc[2].failed
    /\ reposWithDesc[2].Description \in DescsOf("B", ParamsOf(Lister))
    /\ stats.llm_api_calls = 1

\* ------------------------------------------------------------------ StatusCollector.CollectStatus
notStatusVars == <<poolVars, cacheVars, scanVars, filterVars, saveVars, clearVars, listVars, runVars,
                readmeVars, pullVars, collectVars>>

\* where CollectStatus goes after a failed branch query, if it went on
AfterBranchErrorGoOn == "hash"

\* where CollectStatus goes after a failed branch query
AfterBranchError == "done"

\* a git command run with ctx may succeed only while the timeout has not passed
MayRun(ok) == ok => ~stCtxDone

\* the command at position at fails
Fails(at) == stFailed' = stFailed \union {at}

\* if !repo.IsGitRepo
CollectStatus ==
    /\ stPc = "start"
    /\ IF ~stRepo.IsGitRepo
       THEN /\ status' = [status EXCEPT !.Error = "not a git repository"]
            /\ stPc' = "done"
       ELSE /\ stPc' = "branch"
            /\ UNCHANGED status
    /\ UNCHANGED <<stRepo, stDiff, stCtxDone, stFailed, notStatusVars>>

\* getCurrentBranch: git branch --show-current
StatusBranch ==
    /\ stPc = "branch"
    /\ \E ok \in BOOLEAN :
         /\ MayRun(ok)
         /\ IF ok
            THEN /\ status' = [status EXCEPT !.Branch = stRepo.branch]
                 /\ stPc' = "hash"
                 /\ UNCHANGED stFailed
            ELSE /\ status' = [status EXCEPT !.Error = "branch query failed"]
                 /\ stPc' = AfterBranchError
                 /\ Fails("branch")
    /\ UNCHANGED <<stRepo, stDiff, stCtxDone, notStatusVars>>

\* getLastCommitInfo: git rev-parse HEAD
StatusCommitHash ==
    /\ stPc = "hash"
    /\ \E ok \in BOOLEAN :
         /\ MayRun(ok)
         /\ IF ok
            THEN /\ status' = [status EXCEPT !.LastCommitHash = "hash"]
                 /\ stPc' = "msg"
                 /\ UNCHANGED stFailed
            ELSE /\ stPc' = "working"
                 /\ Fails("hash")
                 /\ UNCHANGED status
    /\ UNCHANGED <<stRepo, stDiff, stCtxDone, notStatusVars>>

\* getLastCommitInfo: git log -1 --pretty=format:%s
StatusCommitMsg ==
    /\ stPc = "msg"
    /\ \E ok \in BOOLEAN :
         /\ MayRun(ok)
         /\ IF ok
            THEN /\ status' = [status EXCEPT !.LastCommitMsg = "msg"]
                 /\ stPc' = "date"
                 /\ UNCHANGED stFailed
            ELSE /\ stPc' = "working"
                 /\ Fails("msg")
                 /\ UNCHANGED status
    /\ UNCHANGED <<stRepo, stDiff, stCtxDone, notStatusVars>>

\* getLastCommitInfo: git log -1 --pretty=format:%ci and time.Parse
StatusCommitDate ==
    /\ stPc = "date"
    /\ \E ok \in BOOLEAN, parsed \in BOOLEAN :
         /\ MayRun(ok)
         /\ ~ok => ~parsed
         /\ IF ok
            THEN /\ status' = IF parsed THEN [status EXCEPT !.LastCommitDate = 1]
                              ELSE status
                 /\ UNCHANGED stFailed
            ELSE /\ Fails("date")
                 /\ UNCHANGED status
    /\ stPc' = "working"
    /\ UNCHANGED <<stRepo, stDiff, stCtxDone, notStatusVars>>

\* getWorkingStatus: git status --porcelain
StatusWorking ==
    /\ stPc = "working"
    /\ \E ok \in BOOLEAN :
         /\ MayRun(ok)
         /\ IF ok
            THEN /\ status' = [status EXCEPT
                                  !.HasChanges = stRepo.dirty,
                                  !.Status = IF stRepo.dirty THEN "changes" ELSE "clean"]
                 /\ UNCHANGED stFailed
            ELSE /\ Fails("working")
                 /\ UNCHANGED status
    /\ stPc' = "url"
    /\ UNCHANGED <<stRepo, stDiff, stCtxDone, notStatusVars>>

\* getRemoteURL: git remote get-url origin
StatusRemoteURL ==
    /\ stPc = "url"
    /\ \E ok \in BOOLEAN :
         /\ MayRun(ok)
         /\ ok => stRepo.origin
         /\ IF ok
            THEN /\ status' = [status EXCEPT !.RemoteURL = "url"]
                 /\ UNCHANGED stFailed
            ELSE /\ Fails("url")
                 /\ UNCHANGED status
    /\ stPc' = "show"
    /\ stDiff' = [ahead |-> 0, behind |-> 0]
    /\ UNCHANGED <<stRepo, stCtxDone, notStatusVars>>

\* getRemoteDiff: git remote show origin; on failure it returns 0, 0, nil
StatusRemoteShow ==
    /\ stPc = "show"
    /\ \E ok \in BOOLEAN :
         /\ MayRun(ok)
         /\ ok => stRepo.origin
         /\ IF ok
            THEN /\ stPc' = "branch2"
                 /\ UNCHANGED <<status, stFailed>>
            ELSE /\ status' = [status EXCEPT !.Ahead = 0, !.Behind = 0]
                 /\ stPc' = "done"
                 /\ Fails("show")
    /\ UNCHANGED <<stRepo, stDiff, stCtxDone, notStatusVars>>

\* getRemoteDiff: getCurrentBranch again; on failure it returns the error
StatusDiffBranch ==
    /\ stPc = "branch2"
    /\ \E ok \in BOOLEAN :
         /\ MayRun(ok)
         /\ IF ok
            THEN /\ stPc' = "verify"
                 /\ UNCHANGED stFailed
            ELSE /\ stPc' = "done"
                 /\ Fails("branch2")
    /\ UNCHANGED <<stRepo, status, stDiff, stCtxDone, notStatusVars>>

\* getRemoteDiff: git rev-parse --verify origin/<branch>; on failure 0, 0, nil
StatusDiffVerify ==
    /\ stPc = "verify"
    /\ \E ok \in BOOLEAN :
         /\ MayRun(ok)
         /\ ok => (stRepo.tracked /\ stRepo.branch # "")
         /\ IF ok
            THEN /\ stPc' = "ahead"
                 /\ UNCHANGED <<status, stFailed>>
            ELSE /\ status' = [status EXCEPT !.Ahead = 0, !.Behind = 0]
                 /\ stPc' = "done"
                 /\ Fails("verify")
    /\ UNCHANGED <<stRepo, stDiff, stCtxDone, notStatusVars>>

\* getRemoteDiff: git rev-list --count origin/<branch>..HEAD
StatusDiffAhead ==
    /\ stPc = "ahead"
    /\ \E ok \in BOOLEAN :
         /\ MayRun(ok)
         /\ IF ok
            THEN /\ stDiff' = [stDiff EXCEPT !.ahead = stRepo.ahead]
                 /\ UNCHANGED stFailed
            ELSE /\ Fails("ahead")
                 /\ UNCHANGED stDiff
    /\ stPc' = "behind"
    /\ UNCHANGED <<stRepo, status, stCtxDone, notStatusVars>>

\* getRemoteDiff: git rev-list --count HEAD..origin/<branch>, and the return of
\* ahead and behind into the status
StatusDiffBehind ==
    /\ stPc = "behind"
    /\ \E ok \in BOOLEAN :
         /\ MayRun(ok)
         /\ LET behind == IF ok THEN stRepo.behind ELSE 0
            IN  /\ stDiff' = [stDiff EXCEPT !.behind = behind]
                /\ status' = [status EXCEPT !.Ahead = stDiff.ahead, !.Behind = behind]
         /\ IF ok THEN UNCHANGED stFailed ELSE Fails("behind")
    /\ stPc' = "done"
    /\ UNCHANGED <<stRepo, stCtxDone, notStatusVars>>

\* sc.timeout passes while the status is collected
StatusTimeout ==
    /\ stPc \notin {"off", "start", "done"}
    /\ ~stCtxDone
    /\ stCtxDone' = TRUE
    /\ UNCHANGED <<stRepo, stPc, status, stDiff, stFailed, notStatusVars>>

InitStatus ==
    /\ PoolIdle
    /\ foreignKeys = TRUE
    /\ CacheIdle
    /\ OthersIdle("status")
    /\ stRepo \in {r \in [IsGitRepo : BOOLEAN, branch : {"main", ""}, dirty : BOOLEAN,
                          origin : BOOLEAN, tracked : BOOLEAN, ahead : 0..MaxDiff,
                          behind : 0..MaxDiff] :
                      /\ ~r.IsGitRepo => r = NoStRepo
                      /\ ~r.origin => ~r.tracked
                      /\ ~r.tracked => (r.ahead = 0 /\ r.behind = 0)}
    /\ stPc = "start"
    /\ status = ZeroStatus
    /\ stDiff = [ahead |-> 0, behind |-> 0]
    /\ stCtxDone = FALSE
    /\ stFailed = {}

NextStatus ==
    \/ CollectStatus
    \/ StatusBranch
    \/ StatusCommitHash
    \/ StatusCommitMsg
    \/ StatusCommitDate
    \/ StatusWorking
    \/ StatusRemoteURL
    \/ StatusRemoteShow
    \/ StatusDiffBranch
    \/ StatusDiffVerify
    \/ StatusDiffAhead
    \/ StatusDiffBehind
    \/ StatusTimeout

SpecStatus == InitStatus /\ [][NextStatus]_vars

\* ------------------------------------------------------------------ properties of CollectStatus
\* the error field is set exactly when the repository is not a Git repository or the
\* branch query failed, and then nothing else is filled
ErrorOnlyFromStepOne ==
    /\ status.Error # "" => (~stRepo.IsGitRepo \/ "branch" \in stFailed)
    /\ stPc = "done" => ((~stRepo.IsGitRepo \/ "branch" \in stFailed) => status.Error # "")
    /\ status.Error # "" => status = [ZeroStatus EXCEPT !.Error = status.Error]

\* a failed working-tree, remote URL or remote diff query leaves its fields zero
LaterFailuresLeaveZero ==
    /\ "working" \in stFailed => (~status.HasChanges /\ status.Status = "")
    /\ "url" \in stFailed => status.RemoteURL = ""
    /\ stFailed \cap {"show", "branch2", "verify"} # {} =>
          (status.Ahead = 0 /\ status.Behind = 0)

\* a repository without an origin remote
NoOriginStatus ==
    (~stRepo.origin /\ stRepo.IsGitRepo /\ stPc = "done") =>
        /\ status.RemoteURL = "" /\ status.Ahead = 0 /\ status.Behind = 0
        /\ "branch" \notin stFailed =>
              /\ status.Error = ""
              /\ status.Branch = stRepo.branch
              /\ "working" \notin stFailed => status.HasChanges = stRepo.dirty

notRunVars == <<poolVars, cacheVars, scanVars, filterVars, saveVars, clearVars, listVars,
                statusVars, readmeVars, pullVars, collectVars>>

\* the worker count used when none is configured
DefaultWorkerCount == 10

\* the largest worker count
WorkerCountLimit == 50

\* Config.Validate, if it left the worker count alone
ValidateNothing(w) == w

\* Config.Validate on the worker count: two tests, one after the other
Validate(w) ==
    LET first == IF w <= 0 THEN DefaultWorkerCount ELSE w
    IN  IF first > WorkerCountLimit THEN WorkerCountLimit ELSE first

\* the worker counts a user can configure
WorkerCounts == (0 - MaxExcess)..(WorkerCountLimit + MaxExcess)

\* runUpdate: cfg.Validate() comes first
RunValidate ==
    /\ runPc = "start"
    /\ cfgWorkers' = Validate(cfgWorkers)
    /\ runPc' = "scan"
    /\ UNCHANGED <<flagWorkers, runFound, updWorkers, runStarted, notRunVars>>

\* runUpdate: the scan returns n repositories; with none, runUpdate prints and returns
RunScan ==
    /\ runPc = "scan"
    /\ \E n \in 0..MaxRepos :
         /\ runFound' = n
         /\ runPc' = IF n = 0 THEN "returned" ELSE "config"
    /\ UNCHANGED <<flagWorkers, cfgWorkers, updWorkers, runStarted, notRunVars>>

\* runUpdate: updaterConfig takes cfg.WorkerCount, NewUpdater keeps it,
\* UpdateRepositories is called with a list that is not empty
RunNewUpdater ==
    /\ runPc = "config"
    /\ updWorkers' = cfgWorkers
    /\ runPc' = "pool"
    /\ UNCHANGED <<flagWorkers, cfgWorkers, runFound, runStarted, notRunVars>>

\* UpdateRepositories: for i := 0; i < u.config.WorkerCount; i++ { go u.worker(...) }
RunStartWorker ==
    /\ runPc = "pool"
    /\ runStarted < updWorkers
    /\ runStarted' = runStarted + 1
    /\ UNCHANGED <<flagWorkers, cfgWorkers, runPc, runFound, updWorkers, notRunVars>>

\* UpdateRepositories: the loop is over, the pool runs
RunPoolStarted ==
    /\ runPc = "pool"
    /\ runStarted >= updWorkers
    /\ runPc' = "running"
    /\ UNCHANGED <<flagWorkers, cfgWorkers, runFound, updWorkers, runStarted, notRunVars>>

InitRun ==
    /\ PoolIdle
    /\ foreignKeys = TRUE
    /\ CacheIdle
    /\ OthersIdle("run")
    /\ flagWorkers \in WorkerCounts
    /\ cfgWorkers = flagWorkers
    /\ runPc = "start"
    /\ runFound = 0
    /\ updWorkers = 0
    /\ runStarted = 0

NextRun ==
    \/ RunValidate
    \/ RunScan
    \/ RunNewUpdater
    \/ RunStartWorker
    \/ RunPoolStarted

SpecRun == InitRun /\ [][NextRun]_vars

\* C20: the pool starts between 1 and 50 workers: 10 for a configured count W <= 0,
\* 50 for W > 50 and W itself for W in 1..50; a worker is started only after the
\* worker count has been brought into that range
C20_WorkerCount ==
    /\ [][runStarted' # runStarted =>
             /\ updWorkers \in 1..50
             /\ runStarted' <= updWorkers]_vars
    /\ [](runPc = "running" =>
             /\ runStarted \in 1..50
             /\ flagWorkers <= 0 => runStarted = 10
             /\ flagWorkers > 50 => runStarted = 50
             /\ flagWorkers \in 1..50 => runStarted = flagWorkers)

\* a pool of 50 workers runs although more than 50 were configured
C20_Witness ==
    /\ runPc = "running"
    /\ flagWorkers > 50
    /\ runStarted = 50

\* ------------------------------------------------------------------ dry-run updates
\* no git subprocess was spawned or is running
NoSubprocess ==
    /\ \A r \in Range(RepoNames) : pulls[r] = 0
    /\ \A w \in Workers : wk[w].pc # "git"

\* every result produced so far is a success without error that carries message
DryResults(message) ==
    \A res \in AllResults :
        res.Success /\ res.Error = "" /\ res.Message = message

\* the returned list has exactly one result for every input repository
OneResultEach ==
    \A k \in 1..Len(repositories) : Cardinality(ResultsFor(repositories[k])) = 1

\* C19 as stated: in dry-run mode no git subprocess is spawned and the call returns,
\* for every input repository, a result with success=true, an empty error and the
\* message "simulated update"
C19_Original ==
    DryRun =>
        /\ NoSubprocess
        /\ DryResults("simulated update")
        /\ Finished => OneResultEach

\* C19: in dry-run mode no git subprocess is spawned; every result is a success with
\* an empty error and the message "DRY RUN: " followed by the Chinese for "simulated
\* update succeeded"; a call that is not stopped and has at least one worker returns
\* exactly one such result for every input repository
C19_DryRun ==
    DryRun =>
        /\ NoSubprocess
        /\ DryResults("DRY RUN: U+6A21 U+62DF U+66F4 U+65B0 U+6210 U+529F")
        /\ (Finished /\ ~cancelled /\ WorkerCount >= 1) => OneResultEach

\* a dry run over two repositories has returned two results without any subprocess
C19_Witness ==
    /\ DryRun
    /\ Finished
    /\ ~cancelled
    /\ Len(repositories) = 2
    /\ Len(updateResults) = 2
    /\ started = Range(repositories)
    /\ NoSubprocess

\* ------------------------------------------------------------------ README content and key
notReadmeVars == <<poolVars, cacheVars, scanVars, filterVars, saveVars, clearVars, listVars,
                   statusVars, runVars, pullVars, collectVars>>

\* the longest content readREADMEContent returns without cutting
ReadmeLimit == 8000

\* lines cleanContent keeps
CleanLineLimit == 50

\* the bytes of the model's README files: a letter, a blank, a dash, a line feed
ReadmeBytes == {"a", " ", "-", "\n"}

\* the README files: every byte string up to MaxReadme bytes
ReadmeFiles == UNION {[1..n -> ReadmeBytes] : n \in 0..MaxReadme}

\* CachedScanner.readREADMEContent on a README with these bytes: the content as it
\* is, cut after ReadmeLimit bytes
readREADMEContent(bytes) ==
    IF Len(bytes) > ReadmeLimit
        THEN SubSeq(bytes, 1, ReadmeLimit) \o <<".", ".", ".">>
        ELSE bytes

\* sha256.Sum256 printed as hex: different contents have different sums
Sum256(content) == <<"sha256", content>>

\* strings.Split(content, "\n")
RECURSIVE SplitLines(_)
SplitLines(str) ==
    IF \A i \in 1..Len(str) : str[i] # "\n"
        THEN <<str>>
        ELSE LET k == CHOOSE i \in 1..Len(str) :
                          /\ str[i] = "\n"
                          /\ \A j \in 1..(i - 1) : str[j] # "\n"
             IN  <<SubSeq(str, 1, k - 1)>> \o SplitLines(SubSeq(str, k + 1, Len(str)))

\* strings.TrimSpace
RECURSIVE TrimSpace(_)
TrimSpace(str) ==
    IF str = <<>> THEN str
    ELSE IF str[1] \in {" ", "\n"} THEN TrimSpace(Tail(str))
    ELSE IF str[Len(str)] \in {" ", "\n"} THEN TrimSpace(SubSeq(str, 1, Len(str) - 1))
    ELSE str

\* strings.Count of a one-byte string
Count(str, c) == Cardinality({i \in 1..Len(str) : str[i] = c})

\* cleanContent: the tests that drop a trimmed line
Dropped(line) ==
    \/ line = <<>>
    \/ Count(line, "-") > Len(line) \div 2
    \/ Count(line, "=") > Len(line) \div 2
    \/ Count(line, "*") > Len(line) \div 2
    \/ Contains(line, <<"!", "[">>) /\ Contains(line, <<"]", "(">>)
    \/ Contains(ToLower(line), <<"t", "a", "b", "l", "e", " ", "o", "f", " ",
                                 "c", "o", "n", "t", "e", "n", "t", "s">>)
    \* the two Chinese characters for "contents", as their code points
    \/ Contains(ToLower(line), <<"U+76EE", "U+5F55">>)

\* cleanContent: the loop over the lines, cleaned being the lines kept so far
RECURSIVE CleanLines(_, _)
CleanLines(lines, cleaned) ==
    IF lines = <<>> THEN cleaned
    ELSE LET line == TrimSpace(Head(lines))
         IN  IF Dropped(line) THEN CleanLines(Tail(lines), cleaned)
             ELSE IF Len(cleaned) + 1 >= CleanLineLimit THEN Append(cleaned, line)
             ELSE CleanLines(Tail(lines), Append(cleaned, line))

\* strings.Join(lines, "\n")
RECURSIVE JoinLines(_)
JoinLines(lines) ==
    IF lines = <<>> THEN <<>>
    ELSE IF Len(lines) = 1 THEN lines[1]
    ELSE lines[1] \o <<"\n">> \o JoinLines(Tail(lines))

\* DescriptionService.cleanContent, the normalisation of a README
cleanContent(content) == JoinLines(CleanLines(SplitLines(content), <<>>))

\* ScanDirectoryWithDescription reads the README, Manager.GetDescription finds no row
\* and SaveDescription stores the description under the hash of the content
ReadmeSave ==
    /\ rdPc = "start"
    /\ readREADMEContent(rdWritten) # <<>>
    /\ rdHash' = Sum256(readREADMEContent(rdWritten))
    /\ rdPc' = "saved"
    /\ UNCHANGED <<rdWritten, rdAsked, rdFound, notReadmeVars>>

\* Manager.GetDescription: if readmeContent == "" it returns without touching the store
ReadmeEmpty ==
    /\ rdPc \in {"start", "saved"}
    /\ readREADMEContent(IF rdPc = "start" THEN rdWritten ELSE rdAsked) = <<>>
    /\ rdPc' = "done"
    /\ UNCHANGED <<rdWritten, rdAsked, rdHash, rdFound, notReadmeVars>>

\* a later run reads the README again and GetCachedDescription selects the row
\* WHERE path = ? AND readme_hash = ?
ReadmeLookup ==
    /\ rdPc = "saved"
    /\ readREADMEContent(rdAsked) # <<>>
    /\ rdFound' = (rdHash = Sum256(readREADMEContent(rdAsked)))
    /\ rdPc' = "done"
    /\ UNCHANGED <<rdWritten, rdAsked, rdHash, notReadmeVars>>

InitReadme ==
    /\ PoolIdle
    /\ foreignKeys = TRUE
    /\ CacheIdle
    /\ OthersIdle("readme")
    /\ rdWritten \in ReadmeFiles
    /\ rdAsked \in ReadmeFiles
    /\ rdPc = "start"
    /\ rdHash = "NULL"
    /\ rdFound = FALSE

NextReadme ==
    \/ ReadmeSave
    \/ ReadmeEmpty
    \/ ReadmeLookup

SpecReadme == InitReadme /\ [][NextReadme]_vars

\* C21: two README files with the same normalised form (lines trimmed; empty, rule,
\* badge and table-of-contents lines dropped; the first 50 lines kept) have the same
\* cache key: the lookup with one is a hit on the row written with the other
C21_Original ==
    (rdPc = "done" /\ rdHash # "NULL" /\ rdAsked # <<>>
        /\ cleanContent(rdWritten) = cleanContent(rdAsked)) => rdFound

\* ------------------------------------------------------------------ metadata rows and their repository
\* C22: whenever a repository row is deleted (refresh by path, or clear) its metadata
\* rows are deleted with it: in every state of the store every metadata row
\* references a repository row that exists
C22_Original ==
    \A m \in meta : \E r \in rows : r.id = m.rid

\* ------------------------------------------------------------------ termination of the pool
\* The Go scheduler runs every goroutine that can take a step: the calling goroutine,
\* the producer, the goroutine that closes the result channel and every worker.  A
\* subprocess whose context is done is killed, and time passes while subprocesses
\* run.  Stop is up to the caller and a subprocess need not exit on its own.
FairPool ==
    /\ WF_vars(Entry)
    /\ WF_vars(SpawnWorker)
    /\ WF_vars(StartProducer)
    /\ WF_vars(ProducerSend \/ ProducerCancel \/ ProducerFinish)
    /\ WF_vars(CloseResults)
    /\ WF_vars(Collect)
    /\ WF_vars(Return)
    /\ \A w \in Workers :
          /\ WF_vars(Receive(w) \/ WorkerExit(w))
          /\ WF_vars(Select(w))
          /\ WF_vars(UpdateRepository(w))
          /\ WF_vars(GitKilled(w))
          /\ WF_vars(Send(w))
    /\ WF_vars(Tick)

SpecPoolFair == SpecPool /\ FairPool

\* the producer, every worker and the collecting loop have finished and the call
\* has returned
AllFinished ==
    /\ Finished
    /\ producerPc \in {"off", "done"}
    /\ closerPc \in {"off", "done"}
    /\ \A w \in Workers : wk[w].pc \in {"off", "exited"}

\* C23: UpdateRepositories always terminates: with at least one worker, whenever Stop
\* is called or not, the producer, all workers and the collecting loop finish and the
\* call returns, given that every subprocess ends by its deadline
C23_Terminates ==
    WorkerCount >= 1 => <>[]AllFinished

\* a call that was stopped while a subprocess ran has returned with everything finished
C23_Witness ==
    /\ AllFinished
    /\ WorkerCount >= 1
    /\ cancelled
    /\ \E i \in 1..Len(updateResults) : updateResults[i].EndedBy = "cancel"
    /\ Len(updateResults) < Len(repositories)

\* ------------------------------------------------------------------ the result channel
\* the step that closes the result channel
ClosesResults == resultsClosed' # resultsClosed

\* C24: the result channel is closed once, and only after every worker has exited;
\* no worker sends on the closed channel; every result a worker made is received by
\* the collecting loop before the call returns
C24_ResultChannel ==
    /\ [][ClosesResults =>
             /\ ~resultsClosed
             /\ closerPc = "wait" /\ closerPc' = "done"
             /\ spawned = WorkerCount
             /\ \A w \in Workers : wk[w].pc \in {"off", "exited"}]_vars
    /\ [](resultsClosed => \A w \in Workers : wk[w].pc \in {"off", "exited"})
    /\ [](~panicked)
    /\ []((Finished /\ Len(repositories) > 0) =>
             /\ results = <<>>
             /\ resultsClosed
             /\ ReturnedRepos = completed
             /\ Len(updateResults) = Cardinality(completed))

\* the channel is closed after two workers sent a result each and exited, and the
\* call returned both results
C24_Witness ==
    /\ Finished
    /\ resultsClosed
    /\ spawned = 2
    /\ \A w \in 1..2 : wk[w].pc = "exited"
    /\ Len(updateResults) = 2
    /\ Cardinality(completed) = 2
    /\ ~cancelled

\* ------------------------------------------------------------------ the producer and Stop
\* C25: once the cancel token has fired the producer puts no further repository on
\* the task channel: every task was enqueued before the moment of cancellation
C25_Original ==
    [][cancelled => (nextJob' = nextJob /\ Len(jobs') <= Len(jobs))]_vars

\* ------------------------------------------------------------------ independence of the status queries
\* C26: the queries after the branch query are independent: a query that did not
\* fail itself was issued and has filled its field, whichever other queries failed
C26_Original ==
    (stPc = "done" /\ stRepo.IsGitRepo /\ "branch" \notin stFailed) =>
        /\ "hash" \notin stFailed => status.LastCommitHash = "hash"
        /\ "msg" \notin stFailed => status.LastCommitMsg = "msg"
        /\ "working" \notin stFailed => status.Status # ""
        /\ "url" \notin stFailed => status.RemoteURL = "url"
        /\ stFailed \cap {"show", "branch2", "verify", "ahead", "behind"} = {} =>
              (status.Ahead = stRepo.ahead /\ status.Behind = stRepo.behind)

\* ------------------------------------------------------------------ the outcome of a pull
notPullVars == <<poolVars, cacheVars, scanVars, filterVars, saveVars, clearVars, listVars,
                 statusVars, runVars, readmeVars, collectVars>>

\* the phrases of git the classification looks for, character by character
Chars(phrase) ==
    CASE phrase = "Already up to date" ->
             <<"A", "l", "r", "e", "a", "d", "y", " ", "u", "p", " ", "t", "o", " ", "d",
             "a", "t", "e">>
      [] phrase = "Already up-to-date" ->
             <<"A", "l", "r", "e", "a", "d", "y", " ", "u", "p", "-", "t", "o", "-", "d",
             "a", "t", "e">>
      [] phrase = "Fast-forward" ->
             <<"F", "a", "s", "t", "-", "f", "o", "r", "w", "a", "r", "d">>
      [] phrase = "Merge made by" ->
             <<"M", "e", "r", "g", "e", " ", "m", "a", "d", "e", " ", "b", "y">>
      [] phrase = "files changed" ->
             <<"f", "i", "l", "e", "s", " ", "c", "h", "a", "n", "g", "e", "d">>
      [] phrase = "Permission denied" ->
             <<"P", "e", "r", "m", "i", "s", "s", "i", "o", "n", " ", "d", "e", "n", "i",
             "e", "d">>
      [] phrase = "could not read from remote repository" ->
             <<"c", "o", "u", "l", "d", " ", "n", "o", "t", " ", "r", "e", "a", "d", " ",
             "f", "r", "o", "m", " ", "r", "e", "m", "o", "t", "e", " ", "r", "e", "p",
             "o", "s", "i", "t", "o", "r", "y">>
      [] phrase = "refusing to merge unrelated histories" ->
             <<"r", "e", "f", "u", "s", "i", "n", "g", " ", "t", "o", " ", "m", "e", "r",
             "g", "e", " ", "u", "n", "r", "e", "l", "a", "t", "e", "d", " ", "h", "i",
             "s", "t", "o", "r", "i", "e", "s">>
      [] phrase = "non-fast-forward" ->
             <<"n", "o", "n", "-", "f", "a", "s", "t", "-", "f", "o", "r", "w", "a", "r",
             "d">>
      [] phrase = "Authentication failed" ->
             <<"A", "u", "t", "h", "e", "n", "t", "i", "c", "a", "t", "i", "o", "n", " ",
             "f", "a", "i", "l", "e", "d">>
      [] phrase = "There is no tracking information" ->
             <<"T", "h", "e", "r", "e", " ", "i", "s", " ", "n", "o", " ", "t", "r", "a",
             "c", "k", "i", "n", "g", " ", "i", "n", "f", "o", "r", "m", "a", "t", "i",
             "o", "n">>
      [] phrase = "timeout" ->
             <<"t", "i", "m", "e", "o", "u", "t">>
      [] phrase = "Timeout" ->
             <<"T", "i", "m", "e", "o", "u", "t">>

\* a fixed message of a result, one unit of text; the code's texts are Chinese and
\* are given here by their meaning
Msg(meaning) == <<meaning>>
Dots == <<".", ".", ".">>

\* containsHelper: the loop over the positions of s
containsHelper(str, substr) ==
    \E i \in 0..(Len(str) - Len(substr)) : SubSeq(str, i + 1, i + Len(substr)) = substr

\* contains(s, substr) of the updater package
contains(str, substr) ==
    /\ Len(str) >= Len(substr)
    /\ \/ str = substr
       \/ /\ Len(str) > Len(substr)
          /\ \/ SubSeq(str, 1, Len(substr)) = substr
             \/ SubSeq(str, Len(str) - Len(substr) + 1, Len(str)) = substr
             \/ containsHelper(str, substr)

\* parseGitPullOutput, if it tested for Fast-forward first
parseFastForwardFirst(output) ==
    IF output = <<>> THEN Msg("no output")
    ELSE IF contains(output, Chars("Fast-forward"))
        THEN Msg("fast-forward update succeeded")
    ELSE IF contains(output, Chars("Already up to date"))
        THEN Msg("already the latest version")
    ELSE IF contains(output, Chars("Already up-to-date"))
        THEN Msg("already the latest version")
    ELSE IF contains(output, Chars("Merge made by"))
        THEN Msg("merge update succeeded")
    ELSE IF contains(output, Chars("files changed"))
        THEN Msg("update succeeded")
    ELSE IF Len(output) > 100 THEN SubSeq(output, 1, 100) \o Dots
    ELSE output

\* Updater.parseGitPullOutput
parseGitPullOutput(output) ==
    IF output = <<>> THEN Msg("no output")
    ELSE IF contains(output, Chars("Already up to date"))
        THEN Msg("already the latest version")
    ELSE IF contains(output, Chars("Already up-to-date"))
        THEN Msg("already the latest version")
    ELSE IF contains(output, Chars("Fast-forward"))
        THEN Msg("fast-forward update succeeded")
    ELSE IF contains(output, Chars("Merge made by"))
        THEN Msg("merge update succeeded")
    ELSE IF contains(output, Chars("files changed"))
        THEN Msg("update succeeded")
    ELSE IF Len(output) > 100 THEN SubSeq(output, 1, 100) \o Dots
    ELSE output

\* updateRepository: the message of a failed pull, from errorMsg := string(output)
failureMessage(errorMsg) ==
    IF \/ Contains(errorMsg, Chars("Permission denied"))
       \/ Contains(errorMsg, Chars("could not read from remote repository"))
        THEN Msg("failed: SSH authentication failed or no access to the remote")
    ELSE IF Contains(errorMsg, Chars("refusing to merge unrelated histories"))
        THEN Msg("failed: refused to merge unrelated histories")
    ELSE IF Contains(errorMsg, Chars("non-fast-forward"))
        THEN Msg("failed: not a fast-forward, local commits not pushed")
    ELSE IF Contains(errorMsg, Chars("Authentication failed"))
        THEN Msg("failed: authentication failed, check the credentials")
    ELSE IF Contains(errorMsg, Chars("There is no tracking information"))
        THEN Msg("failed: the branch has no remote tracking branch")
    ELSE IF Contains(errorMsg, Chars("timeout")) \/ Contains(errorMsg, Chars("Timeout"))
        THEN Msg("failed: connection timed out")
    ELSE IF Len(errorMsg) > 100
        THEN Msg("update failed: ") \o SubSeq(errorMsg, 1, 97) \o Dots
    ELSE Msg("update failed: ") \o errorMsg

\* updateRepository after cmd.CombinedOutput() returned
PullClassify ==
    /\ pullPc = "run"
    /\ pullResult' = IF pullErr # "nil"
                       THEN [Success |-> FALSE, Error |-> pullErr,
                             Message |-> failureMessage(pullOutput)]
                       ELSE [Success |-> TRUE, Error |-> "",
                             Message |-> parseGitPullOutput(pullOutput)]
    /\ pullPc' = "done"
    /\ UNCHANGED <<pullOutput, pullErr, notPullVars>>

\* other text in the output: one character, or a hundred
Filler(n) == [i \in 1..n |-> "x"]

\* the pieces an output is made of
Pieces ==
    {Chars(p) : p \in {"Already up to date", "Already up-to-date", "Fast-forward",
                       "Merge made by", "files changed", "Permission denied",
                       "could not read from remote repository",
                       "refusing to merge unrelated histories", "non-fast-forward",
                       "Authentication failed", "There is no tracking information",
                       "timeout", "Timeout"}}
        \union {Filler(1), Filler(100)}

\* the outputs: up to MaxPieces pieces, one after the other
RECURSIVE Outputs(_)
Outputs(n) ==
    IF n = 0 THEN {<<>>}
    ELSE Outputs(n - 1) \union {o \o p : o \in Outputs(n - 1), p \in Pieces}

\* what err.Error() gives
PullErrors == {"nil", "exit status 1", "signal: killed"}

InitPull ==
    /\ PoolIdle
    /\ foreignKeys = TRUE
    /\ CacheIdle
    /\ OthersIdle("pull")
    /\ pullOutput \in Outputs(MaxPieces)
    /\ pullErr \in PullErrors
    /\ pullPc = "run"
    /\ pullResult = [Success |-> FALSE, Error |-> "", Message |-> <<>>]

NextPull == PullClassify

SpecPull == InitPull /\ [][NextPull]_vars

\* ---- properties of the classification
\* the message of the first entry of table with a phrase that occurs in text
FirstMatch(table, text) ==
    LET hits == {i \in 1..Len(table) : \E p \in table[i][1] : Contains(text, p)}
    IN  IF hits = {} THEN <<>>
        ELSE table[CHOOSE i \in hits : \A j \in hits : i <= j][2]

SuccessTable ==
    <<<<{Chars("Already up to date"), Chars("Already up-to-date")}, Msg("already the latest version")>>,
      <<{Chars("Fast-forward")}, Msg("fast-forward update succeeded")>>,
      <<{Chars("Merge made by")}, Msg("merge update succeeded")>>,
      <<{Chars("files changed")}, Msg("update succeeded")>>>>

FailureTable ==
    <<<<{Chars("Permission denied"), Chars("could not read from remote repository")}, Msg("failed: SSH authentication failed or no access to the remote")>>,
      <<{Chars("refusing to merge unrelated histories")}, Msg("failed: refused to merge unrelated histories")>>,
      <<{Chars("non-fast-forward")}, Msg("failed: not a fast-forward, local commits not pushed")>>,
      <<{Chars("Authentication failed")}, Msg("failed: authentication failed, check the credentials")>>,
      <<{Chars("There is no tracking information")}, Msg("failed: the branch has no remote tracking branch")>>,
      <<{Chars("timeout"), Chars("Timeout")}, Msg("failed: connection timed out")>>>>

\* the first n characters of text
FirstChars(text, n) == SubSeq(text, 1, Min(n, Len(text)))

\* the failure half of the claim: success=false, the raw error stored, the message of
\* the first matching category, else a generic message
FailureClassified ==
    (pullPc = "done" /\ pullErr # "nil") =>
        /\ ~pullResult.Success
        /\ pullResult.Error = pullErr
        /\ IF FirstMatch(FailureTable, pullOutput) # <<>>
             THEN pullResult.Message = FirstMatch(FailureTable, pullOutput)
             ELSE /\ SubSeq(pullResult.Message, 1, 1) = Msg("update failed: ")
                  /\ Tail(pullResult.Message) =
                        IF Len(pullOutput) > 100 THEN FirstChars(pullOutput, 97) \o Dots
                        ELSE pullOutput

notCollectVars == <<poolVars, cacheVars, scanVars, filterVars, saveVars, clearVars, listVars,
                    statusVars, runVars, readmeVars, pullVars>>

\* progressCallback(result), if it were started as a goroutine of its own
CallbackDetached == FALSE

\* progressCallback(result) is an ordinary call: the loop goes on when it has returned
CallbackIsCall == TRUE

\* a worker: results <- result, then the end of range jobs and wg.Done()
CollectWorkerSend(w) ==
    /\ clWorkers[w] = "run"
    /\ clResults' = Append(clResults, w)
    /\ clWorkers' = [clWorkers EXCEPT ![w] = "exited"]
    /\ UNCHANGED <<clClosed, clMain, clCur, clList, clCalls, clHasCallback,
                   notCollectVars>>

\* wg.Wait(); close(results)
CollectClose ==
    /\ ~clClosed
    /\ \A w \in DOMAIN clWorkers : clWorkers[w] = "exited"
    /\ clClosed' = TRUE
    /\ UNCHANGED <<clWorkers, clResults, clMain, clCur, clList, clCalls, clHasCallback,
                   notCollectVars>>

\* for result := range results: a result is received
CollectReceive ==
    /\ clMain = "range"
    /\ clResults # <<>>
    /\ clCur' = Head(clResults)
    /\ clResults' = Tail(clResults)
    /\ clMain' = "append"
    /\ UNCHANGED <<clWorkers, clClosed, clList, clCalls, clHasCallback,
                   notCollectVars>>

\* updateResults = append(updateResults, result); if progressCallback != nil the
\* callback is entered
CollectAppend ==
    /\ clMain = "append"
    /\ clList' = Append(clList, clCur)
    /\ IF clHasCallback
         THEN /\ clCalls' = clCalls \union {clCur}
              /\ clMain' = IF CallbackIsCall THEN "call" ELSE "range"
         ELSE /\ clMain' = "range"
              /\ UNCHANGED clCalls
    /\ UNCHANGED <<clWorkers, clResults, clClosed, clCur, clHasCallback, notCollectVars>>

\* an invocation of the callback returns
CollectCallbackReturns ==
    /\ \E r \in clCalls :
         /\ clCalls' = clCalls \ {r}
         /\ clMain' = IF clMain = "call" /\ clCur = r THEN "range" ELSE clMain
    /\ UNCHANGED <<clWorkers, clResults, clClosed, clCur, clList, clHasCallback,
                   notCollectVars>>

\* range results ends on the closed, drained channel; return updateResults, nil
CollectReturn ==
    /\ clMain = "range"
    /\ clResults = <<>>
    /\ clClosed
    /\ clMain' = "returned"
    /\ UNCHANGED <<clWorkers, clResults, clClosed, clCur, clList, clCalls, clHasCallback,
                   notCollectVars>>

\* the workers are about to send their last results, any number of them at once
InitCollect ==
    /\ PoolIdle
    /\ foreignKeys = TRUE
    /\ CacheIdle
    /\ OthersIdle("collect")
    /\ \E n \in 1..(MaxWorkers + 2) : clWorkers = [w \in 1..n |-> "run"]
    /\ clResults = <<>>
    /\ clClosed = FALSE
    /\ clMain = "range"
    /\ clCur = 0
    /\ clList = <<>>
    /\ clCalls = {}
    /\ clHasCallback \in BOOLEAN

NextCollect ==
    \/ \E w \in DOMAIN clWorkers : CollectWorkerSend(w)
    \/ CollectClose
    \/ CollectReceive
    \/ CollectAppend
    \/ CollectCallbackReturns
    \/ CollectReturn

SpecCollect == InitCollect /\ [][NextCollect]_vars

\* C28: the callback is invoked by the collecting loop of the calling goroutine only
\* and no two invocations overlap, however many workers send at the same moment; the
\* result list is modified by that loop only
C28_CallbackSerial ==
    /\ [][/\ clList' # clList =>
               (clMain = "append" /\ clList' = Append(clList, clCur) /\ clWorkers' = clWorkers)
          /\ ~(clCalls' \subseteq clCalls) =>
               (clMain = "append" /\ clCalls' = clCalls \union {clCur}
                  /\ clList' = Append(clList, clCur))]_vars
    /\ [](/\ Cardinality(clCalls) <= 1
          /\ clCalls # {} => (clMain = "call" /\ clCalls = {clCur})
          /\ clMain = "returned" => (clCalls = {} /\ Len(clList) = Len(clWorkers)))

\* the callback runs for one result while the results of two other workers wait in
\* the channel
C28_Witness ==
    /\ clMain = "call"
    /\ Cardinality(clCalls) = 1
    /\ Len(clResults) >= 2
    /\ clClosed

\* ------------------------------------------------------------------ metadata across a description save
\* MetadataCache.GetCachedMetadata on the tables repositories and repository_metadata:
\* SELECT ... FROM repository_metadata rm JOIN repositories r ON r.id = rm.repository_id
\* WHERE r.path = ? AND rm.structure_hash = ?
GetCachedMetadata(repositories_, repository_metadata, repoPath, structureHash) ==
    {rm \in repository_metadata :
        /\ rm.structure_hash = structureHash
        /\ \E r \in repositories_ : r.id = rm.rid /\ r.path = repoPath}

\* the step in which process i runs Cache.SaveDescription
SavesDescription(i) == proc[i].pc = "save" /\ proc'[i].pc = "done"

\* C29: SaveDescription for a path that has metadata rows leaves them unchanged and
\* attached to the path: GetCachedMetadata for the path and structure hash is a hit
\* after the save when it was one before, with the same result
C29_Original ==
    [][\A i \in Procs : SavesDescription(i) =>
          \A sh \in StructureHashes :
              GetCachedMetadata(rows, meta, proc[i].path, sh) # {} =>
                  /\ GetCachedMetadata(rows', meta', proc[i].path, sh) # {}
                  /\ {m.structure_hash : m \in GetCachedMetadata(rows', meta', proc[i].path, sh)}
                       = {m.structure_hash : m \in GetCachedMetadata(rows, meta, proc[i].path, sh)}]_vars

\* ------------------------------------------------------------------ a later call on the same Updater
\* the context a call works under: u.ctx, which NewUpdater makes once and stores
\* in the Updater; UpdateRepositories makes no context of its own
CtxOfCall(done) == FALSE
CtxOfUpdater(done) == done

\* UpdateRepositories is called again on the Updater once the call before it has
\* returned (all its workers have exited by then; a producer of the earlier call
\* that is still running only touches the jobs channel of that call): the list
\* and the callback are those of the new call, the channels, the WaitGroup and
\* updateResults are new, u.config and u.ctx are those of the Updater
CallAgain ==
    /\ mainPc = "returned"
    /\ \E n \in 0..MaxRepos : repositories' = SubSeq(RepoNames, 1, n)
    /\ hasCallback' \in BOOLEAN
    /\ stoppedBefore' = cancelled
    /\ cancelled' = CtxOfUpdater(cancelled)
    /\ mainPc' = "entry"
    /\ spawned' = 0
    /\ producerPc' = "off"
    /\ nextJob' = 1
    /\ closerPc' = "off"
    /\ jobs' = <<>>
    /\ jobsClosed' = FALSE
    /\ results' = <<>>
    /\ resultsClosed' = FALSE
    /\ wk' = [w \in Workers |-> IdleWorker]
    /\ updateResults' = <<>>
    /\ callbacks' = <<>>
    /\ retErr' = "unset"
    /\ taken' = [r \in Range(RepoNames) |-> 0]
    /\ pulls' = [r \in Range(RepoNames) |-> 0]
    /\ started' = {}
    /\ completed' = {}
    /\ pendingAtStop' = {}
    /\ late' = {}
    /\ UNCHANGED <<WorkerCount, DryRun, panicked, cacheVars, restVars>>

NextPoolAgain ==
    \/ NextPool
    \/ CallAgain

SpecPoolAgain == InitPool /\ [][NextPoolAgain]_vars

\* a worker of the call holds a task, or a result of one
TaskHeld == \E w \in Workers : wk[w].pc \in {"update", "git", "send"}

\* C30: a call made on an Updater after Stop starts no task and no git
\* subprocess, nothing enters the results channel, the callback is not invoked,
\* and when the call has returned it has returned no results and a nil error,
\* whatever the list
C30_StoppedUpdater ==
    stoppedBefore =>
        /\ started = {}
        /\ \A r \in Range(RepoNames) : pulls[r] = 0
        /\ ~TaskHeld
        /\ results = <<>>
        /\ callbacks = <<>>
        /\ updateResults = <<>>
        /\ mainPc = "returned" => retErr = "nil"

\* a call made after Stop with a non-empty list has returned, and a worker of
\* it had received a repository from the jobs channel
C30_Witness ==
    /\ stoppedBefore
    /\ mainPc = "returned"
    /\ Len(repositories) = MaxRepos
    /\ spawned >= 1
    /\ \E r \in Range(RepoNames) : taken[r] > 0
    /\ updateResults = <<>>
    /\ retErr = "nil"

====
